---- MODULE Spec2Model ----
(***************************************************************************)
(* Sentryal InSAR worker: the RunPod job handler (handler.py), the ISCE3   *)
(* processing pipeline it drives (isce3_processor.py) and the download,    *)
(* upload and webhook helpers (utils.py), as a state machine.              *)
(*                                                                         *)
(* Python strings that are built by formatting are sequences of tokens     *)
(* (an f-string is a concatenation); a dict key that is missing is the     *)
(* value Absent, a falsy value ("" / None / 0) is Empty.                   *)
(***************************************************************************)
EXTENDS Integers, Sequences, FiniteSets, TLC

VARIABLES
    input,        \* worker -> job["input"], a record of the fields the handler reads
    storageBucket,\* os.environ.get("STORAGE_BUCKET")
    pc,           \* worker -> position in handler / process_pair
    validation,   \* worker -> what validate_input returned
    exc,          \* worker -> the exception that is propagating or was just caught
    raised,       \* worker -> the first exception raised in the job (history)
    result,       \* worker -> process_pair's result dict
    response,     \* worker -> the response dict the handler built
    returned,     \* worker -> what the handler call returned to RunPod
    outcome,      \* worker -> "running" | "returned" | "raised"
    calls,        \* worker -> the calls the handler made, in order (history)
    webhookLog,   \* worker -> the notify_webhook calls: payload and return value
    cleanupFailed,\* worker -> shutil.rmtree raised inside cleanup_job
    dirs,         \* the directories that exist under OUTPUT_DIR ("" is OUTPUT_DIR itself)
    granuleFile,  \* file name under INPUT_DIR -> "absent" | "partial" | "complete"
    bbox,         \* worker -> the bbox dict of its job, as handler passes it to process_pair
    demFile,      \* cache key -> the file of that name under DEM_DIR, shared by all jobs
    demCall,      \* worker -> what its _prepare_dem call saw and did (history)
    slcDir,       \* the names in work_dir / "slc" of one processor
    globOrder,    \* the order in which that directory lists its names
    stageLog,     \* the _extract_safe calls made on that processor (history)
    raster,       \* the displacement raster extract_displacement_at_points opens
    samplePoints, \* its points argument
    samples,      \* the list it returned
    unwrapIn,     \* the filtered interferogram and the coherence raster _unwrap_phase is given
    unwrapOut,    \* the unwrapped raster it wrote
    geoIn,        \* the unwrapped raster and the bbox _geocode is given
    geoOut,       \* the displacement raster it wrote
    currentUsage, \* API provider -> quotas[provider].current_usage
    resetDue,     \* API provider -> now >= quotas[provider].reset_timestamp
    lockOwner,    \* the thread that holds QuantumQuotaManager.lock, or NoThread
    quotaCall,    \* thread -> the call of the quota manager it is in
    quotaDone,    \* the last call of the quota manager that ended: what it saw and did (history)
    fetchPc,      \* coroutine -> position in fetch_panorama
    issued        \* the Street View requests sent since the last quota reset (history)

handlerVars == <<input, storageBucket, validation, result, response, returned, outcome,
                 webhookLog, cleanupFailed, dirs, granuleFile>>

demVars == <<bbox, demFile, demCall>>

stagingVars == <<slcDir, globOrder, stageLog>>

samplerVars == <<raster, samplePoints, samples>>

rasterVars == <<unwrapIn, unwrapOut, geoIn, geoOut>>

quotaVars == <<currentUsage, resetDue, lockOwner, quotaCall, quotaDone, fetchPc, issued>>

vars == <<input, storageBucket, pc, validation, exc, raised, result, response,
          returned, outcome, calls, webhookLog, cleanupFailed, dirs, granuleFile,
          demVars, stagingVars, samplerVars, rasterVars, quotaVars>>

----------------------------------------------------------------------------
(* Values *)

Workers == {"w1", "w2"}

Absent == "<absent>"
Empty  == ""

\* Python truthiness of dict.get(key): a missing key gives None, "" is falsy.
Truthy(v) == v \notin {Absent, Empty}

\* dict.get(key, default)
Get(v, default) == IF v = Absent THEN default ELSE v

JobIdValues   == {Absent, Empty, "j1"}
GranuleValues == {Absent, Empty, "gA", "gB.zip"}
UrlValues     == {Absent, Empty, "https://asf"}
PathValues    == {Absent, Empty, "/local"}
WebhookValues == {Absent, "https://hook"}
PointsValues  == {Absent, "pts"}

JobInputs ==
    [job_id : JobIdValues,
     reference_granule : GranuleValues, secondary_granule : GranuleValues,
     reference_url : UrlValues, secondary_url : UrlValues,
     reference_path : PathValues, secondary_path : PathValues,
     points : PointsValues,
     webhook_url : WebhookValues]

\* The messages of the exceptions the libraries raise (gdal, requests, os, boto3).
\* The bbox of a job, in whole numbers of 0.0001 degree: the first two differ by 0.004 degree in the north
\* and give the same file name, the third gives another one.  None of them has a
\* coordinate half way between two hundredths.
BBoxes ==
    { [north |-> 450000, south |-> 440000, east |-> 50000, west |-> 40000],
      [north |-> 450040, south |-> 440000, east |-> 50000, west |-> 40000],
      [north |-> 450060, south |-> 440000, east |-> 50000, west |-> 40000] }

\* The bbox of the job when one job runs alone.
JobBBox == [north |-> 450040, south |-> 440000, east |-> 50000, west |-> 40000]

NoBBox == [north |-> 0, south |-> 0, east |-> 0, west |-> 0]

\* A bbox whose north lies south of its south.
InvertedBBox == [north |-> 440000, south |-> 450040, east |-> 50000, west |-> 40000]

\* Python's int(a / b): the quotient cut toward zero.
IntDiv(a, b) ==
    LET q == (IF a < 0 THEN -a ELSE a) \div (IF b < 0 THEN -b ELSE b)
    IN  IF (a < 0) = (b < 0) THEN q ELSE -q

\* _geocode: pixel_size = 0.0001 degree, in the unit of the bbox
GeoPixel == 1

\* width = int((east - west) / pixel_size) and height likewise: driver.Create makes
\* a raster only when both are at least 1, and raises otherwise.
HasPixels(b, pixel_size) ==
    /\ IntDiv(b.east - b.west, pixel_size) >= 1
    /\ IntDiv(b.north - b.south, pixel_size) >= 1

ErrMsgs == {"io error", "bad data"}

NoExc == [stage |-> "none", type |-> "none", msg |-> <<>>, frames |-> <<>>]

Exception(stage, type, msg, frames) ==
    [stage |-> stage, type |-> type, msg |-> msg, frames |-> frames]

NoValidation == [ran |-> FALSE, valid |-> FALSE, error |-> <<>>]

NoResult == [success |-> FALSE, error |-> <<>>, set |-> FALSE]

NoTrace == [frames |-> <<>>, type |-> "none", msg |-> <<>>]

\* "results": None, or the dict of the success response.
NoResults == [null |-> TRUE, artifact_urls |-> "none", displacement_points |-> <<>>]

NoResponse ==
    [job_id |-> Absent, status |-> "none", results |-> NoResults,
     error |-> <<>>, error_trace |-> NoTrace]

\* job_id = job_input.get("job_id", "unknown")
JobId(i) == Get(i.job_id, "unknown")

----------------------------------------------------------------------------
(* handler.py: validate_input *)

validate_input_or(i) ==
    LET has_urls  == Truthy(i.reference_url) \/ Truthy(i.secondary_url)
        has_paths == Truthy(i.reference_path) \/ Truthy(i.secondary_path)
    IN  IF ~Truthy(i.job_id)
          THEN [ran |-> TRUE, valid |-> FALSE, error |-> <<"Missing required field: ", "job_id">>]
        ELSE IF ~Truthy(i.reference_granule)
          THEN [ran |-> TRUE, valid |-> FALSE, error |-> <<"Missing required field: ", "reference_granule">>]
        ELSE IF ~Truthy(i.secondary_granule)
          THEN [ran |-> TRUE, valid |-> FALSE, error |-> <<"Missing required field: ", "secondary_granule">>]
        ELSE IF ~has_urls /\ ~has_paths
          THEN [ran |-> TRUE, valid |-> FALSE, error |-> <<"Must provide either URLs or paths for granules">>]
        ELSE [ran |-> TRUE, valid |-> TRUE, error |-> <<>>]

validate_input_no_secondary(i) ==
    LET has_urls  == Truthy(i.reference_url) /\ Truthy(i.secondary_url)
        has_paths == Truthy(i.reference_path) /\ Truthy(i.secondary_path)
    IN  IF ~Truthy(i.job_id)
          THEN [ran |-> TRUE, valid |-> FALSE, error |-> <<"Missing required field: ", "job_id">>]
        ELSE IF ~Truthy(i.reference_granule)
          THEN [ran |-> TRUE, valid |-> FALSE, error |-> <<"Missing required field: ", "reference_granule">>]
        ELSE IF ~has_urls /\ ~has_paths
          THEN [ran |-> TRUE, valid |-> FALSE, error |-> <<"Must provide either URLs or paths for granules">>]
        ELSE [ran |-> TRUE, valid |-> TRUE, error |-> <<>>]

validate_input(i) ==
    LET has_urls  == Truthy(i.reference_url) /\ Truthy(i.secondary_url)
        has_paths == Truthy(i.reference_path) /\ Truthy(i.secondary_path)
    IN  IF ~Truthy(i.job_id)
          THEN [ran |-> TRUE, valid |-> FALSE, error |-> <<"Missing required field: ", "job_id">>]
        ELSE IF ~Truthy(i.reference_granule)
          THEN [ran |-> TRUE, valid |-> FALSE, error |-> <<"Missing required field: ", "reference_granule">>]
        ELSE IF ~Truthy(i.secondary_granule)
          THEN [ran |-> TRUE, valid |-> FALSE, error |-> <<"Missing required field: ", "secondary_granule">>]
        ELSE IF ~has_urls /\ ~has_paths
          THEN [ran |-> TRUE, valid |-> FALSE, error |-> <<"Must provide either URLs or paths for granules">>]
        ELSE [ran |-> TRUE, valid |-> TRUE, error |-> <<>>]

----------------------------------------------------------------------------
(* The file system under /data *)

\* pathlib: OUTPUT_DIR / "" is OUTPUT_DIR itself.
Exists(d, id) == id \in d

\* Path.mkdir(parents=True, exist_ok=True)
MkdirP(d, id) == d \cup {"", id}

\* shutil.rmtree: the directory and everything below it.
Rmtree(d, id) == IF id = "" THEN {} ELSE d \ {id}

\* download_granule's output file name
EndsWithZip(g) == g \in {"gB.zip"}

\* filename = granule_name if granule_name.endswith('.zip') else f"{granule_name}.zip"
FileName(g) == IF EndsWithZip(g) THEN g ELSE CASE g = "gA" -> "gA.zip" [] OTHER -> g

GranuleFiles == {"gA.zip", "gB.zip"}

----------------------------------------------------------------------------
(* Raising, calling *)

\* An exception leaves the try body of handler(): control goes to its except block.
RaiseInHandler(p, e) ==
    /\ pc' = [pc EXCEPT ![p] = "except"]
    /\ exc' = [exc EXCEPT ![p] = e]
    /\ raised' = [raised EXCEPT ![p] = IF @ = NoExc THEN e ELSE @]

\* An exception leaves the try body of process_pair(): control goes to its except block.
RaiseInProcessPair(p, e) ==
    /\ pc' = [pc EXCEPT ![p] = "pp_except"]
    /\ exc' = [exc EXCEPT ![p] = e]
    /\ raised' = [raised EXCEPT ![p] = IF @ = NoExc THEN e ELSE @]

Call(p, name) == calls' = [calls EXCEPT ![p] = Append(@, name)]

Goto(p, where) == pc' = [pc EXCEPT ![p] = where]

\* What a call into a library or the network may do: return, or raise with a message.
Ok == "ok"

Outcomes == {Ok} \cup ErrMsgs

----------------------------------------------------------------------------
(* handler.py: handler, up to the processing pipeline *)

Start(p) ==
    /\ pc[p] = "start"
    /\ Goto(p, "validate")
    /\ UNCHANGED <<input, storageBucket, validation, exc, raised, result, response,
                   returned, outcome, calls, webhookLog, cleanupFailed, dirs, granuleFile>>
    /\ UNCHANGED <<demVars, stagingVars, samplerVars, rasterVars, quotaVars>>

Validate(p) ==
    /\ pc[p] = "validate"
    /\ LET v == validate_input(input[p]) IN
        /\ validation' = [validation EXCEPT ![p] = v]
        /\ Call(p, "validate_input")
        /\ IF v.valid
             THEN Goto(p, "mkdir") /\ UNCHANGED <<exc, raised>>
             ELSE RaiseInHandler(p, Exception("validate_input", "ValueError",
                                              <<"Invalid input: ">> \o v.error, <<"handler">>))
    /\ UNCHANGED <<input, storageBucket, result, response, returned, outcome,
                   webhookLog, cleanupFailed, dirs, granuleFile>>
    /\ UNCHANGED <<demVars, stagingVars, samplerVars, rasterVars, quotaVars>>

Mkdir(p) ==
    /\ pc[p] = "mkdir"
    /\ Call(p, "mkdir")
    /\ \E o \in Outcomes :
         IF o = Ok
           THEN /\ dirs' = MkdirP(dirs, JobId(input[p]))
                /\ Goto(p, "download_ref")
                /\ UNCHANGED <<exc, raised>>
           ELSE /\ RaiseInHandler(p, Exception("mkdir", "OSError", <<o>>, <<"handler", "mkdir">>))
                /\ UNCHANGED dirs
    /\ UNCHANGED <<input, storageBucket, validation, result, response, returned, outcome,
                   webhookLog, cleanupFailed, granuleFile>>
    /\ UNCHANGED <<demVars, stagingVars, samplerVars, rasterVars, quotaVars>>

----------------------------------------------------------------------------
(* utils.py: download_granule, as called twice by handler *)

IsRef(p) == pc[p] \in {"download_ref", "download_ref_stream"}

UrlOf(p) == IF IsRef(p) THEN input[p].reference_url ELSE input[p].secondary_url

UrlKey(p) == IF IsRef(p) THEN "'reference_url'" ELSE "'secondary_url'"

GranuleOf(p) == IF IsRef(p) THEN input[p].reference_granule ELSE input[p].secondary_granule

DownloadName(p) == IF IsRef(p) THEN "download_ref" ELSE "download_sec"

AfterDownload(p) == IF IsRef(p) THEN "download_sec" ELSE "init_processor"

\* job_input["reference_url"] (KeyError when the key is missing), then
\* download_granule up to the first write: the exists() short cut, the GET request.
DownloadBegin(p) ==
    /\ pc[p] \in {"download_ref", "download_sec"}
    /\ IF UrlOf(p) = Absent
         THEN /\ RaiseInHandler(p, Exception(DownloadName(p), "KeyError", <<UrlKey(p)>>, <<"handler">>))
              /\ UNCHANGED <<calls, granuleFile>>
         ELSE /\ Call(p, DownloadName(p))
              /\ IF granuleFile[FileName(GranuleOf(p))] # "absent"
                   THEN /\ Goto(p, AfterDownload(p))
                        /\ UNCHANGED <<exc, raised, granuleFile>>
                   ELSE \E o \in (IF UrlOf(p) = Empty THEN {} ELSE {"open"}) \cup ErrMsgs :
                          IF o = "open"
                            THEN /\ granuleFile' = [granuleFile EXCEPT ![FileName(GranuleOf(p))] = "partial"]
                                 /\ Goto(p, IF IsRef(p) THEN "download_ref_stream" ELSE "download_sec_stream")
                                 /\ UNCHANGED <<exc, raised>>
                            ELSE /\ RaiseInHandler(p, Exception(DownloadName(p), "RequestException", <<o>>,
                                                                <<"handler", "download_granule">>))
                                 /\ UNCHANGED granuleFile
    /\ UNCHANGED <<input, storageBucket, validation, result, response, returned, outcome,
                   webhookLog, cleanupFailed, dirs>>
    /\ UNCHANGED <<demVars, stagingVars, samplerVars, rasterVars, quotaVars>>


DownloadStreamKeepingPartial(p) ==
    /\ pc[p] \in {"download_ref_stream", "download_sec_stream"}
    /\ \E o \in Outcomes :
         IF o = Ok
           THEN /\ granuleFile' = [granuleFile EXCEPT ![FileName(GranuleOf(p))] = "complete"]
                /\ Goto(p, AfterDownload(p))
                /\ UNCHANGED <<exc, raised>>
           ELSE /\ UNCHANGED granuleFile
                /\ RaiseInHandler(p, Exception(DownloadName(p), "RequestException", <<o>>,
                                               <<"handler", "download_granule">>))
    /\ UNCHANGED <<input, storageBucket, validation, result, response, returned, outcome,
                   calls, webhookLog, cleanupFailed, dirs>>
    /\ UNCHANGED <<demVars, stagingVars, samplerVars, rasterVars, quotaVars>>

\* download_granule: the chunks are written; on an error the file is unlinked and the error re-raised.
DownloadStream(p) ==
    /\ pc[p] \in {"download_ref_stream", "download_sec_stream"}
    /\ \E o \in Outcomes :
         IF o = Ok
           THEN /\ granuleFile' = [granuleFile EXCEPT ![FileName(GranuleOf(p))] = "complete"]
                /\ Goto(p, AfterDownload(p))
                /\ UNCHANGED <<exc, raised>>
           ELSE /\ granuleFile' = [granuleFile EXCEPT ![FileName(GranuleOf(p))] = "absent"]
                /\ RaiseInHandler(p, Exception(DownloadName(p), "RequestException", <<o>>,
                                               <<"handler", "download_granule">>))
    /\ UNCHANGED <<input, storageBucket, validation, result, response, returned, outcome,
                   calls, webhookLog, cleanupFailed, dirs>>
    /\ UNCHANGED <<demVars, stagingVars, samplerVars, rasterVars, quotaVars>>

----------------------------------------------------------------------------
(* isce3_processor.py: ISCE3Processor *)

\* ISCE3Processor.__init__: the directories, then _verify_isce3.
InitProcessor(p) ==
    /\ pc[p] = "init_processor"
    /\ Call(p, "ISCE3Processor")
    /\ dirs' = MkdirP(dirs, JobId(input[p]))
    /\ \E o \in Outcomes :
         IF o = Ok
           THEN Goto(p, "process_pair") /\ UNCHANGED <<exc, raised>>
           ELSE RaiseInHandler(p, Exception("ISCE3Processor", "RuntimeError",
                                            <<"ISCE3 not available: ", o>>,
                                            <<"handler", "__init__", "_verify_isce3">>))
    /\ UNCHANGED <<input, storageBucket, validation, result, response, returned, outcome,
                   webhookLog, cleanupFailed, granuleFile>>
    /\ UNCHANGED <<demVars, stagingVars, samplerVars, rasterVars, quotaVars>>

\* The steps of process_pair's try body, in the order of the code.
PipelineStages ==
    <<"_create_directories", "_prepare_dem", "_extract_safe_ref", "_extract_safe_sec",
      "_coregister", "_form_interferogram", "_filter_phase", "_unwrap_phase",
      "_geocode", "_calculate_statistics">>

StageSet == {PipelineStages[k] : k \in DOMAIN PipelineStages}

StageIndex(s) == CHOOSE k \in DOMAIN PipelineStages : PipelineStages[k] = s

\* The method a step runs in (both _extract_safe calls run the same method).
StageFn(s) ==
    CASE s \in {"_extract_safe_ref", "_extract_safe_sec"} -> "_extract_safe"
      [] OTHER -> s

NextStageSkipFilter(s) ==
    IF s = "_form_interferogram" THEN "_unwrap_phase"
    ELSE IF StageIndex(s) < Len(PipelineStages) THEN PipelineStages[StageIndex(s) + 1]
    ELSE "pp_success"

NextStage(s) ==
    IF StageIndex(s) < Len(PipelineStages) THEN PipelineStages[StageIndex(s) + 1]
    ELSE "pp_success"

\* _coregister only builds paths and a dict: nothing in it raises.
StageOutcomes(s) == IF s = "_coregister" THEN {Ok} ELSE Outcomes

\* process_pair, to the end of the imports: the result dict, isce3 and gdal imported.
ProcessPairBegin(p) ==
    /\ pc[p] = "process_pair"
    /\ Call(p, "process_pair")
    /\ result' = [result EXCEPT ![p] = [success |-> FALSE, error |-> <<>>, set |-> TRUE]]
    /\ \E o \in Outcomes :
         IF o = Ok
           THEN Goto(p, PipelineStages[1]) /\ UNCHANGED <<exc, raised>>
           ELSE RaiseInProcessPair(p, Exception("process_pair", "ImportError", <<o>>,
                                                <<"handler", "process_pair">>))
    /\ UNCHANGED <<input, storageBucket, validation, response, returned, outcome,
                   webhookLog, cleanupFailed, dirs, granuleFile>>
    /\ UNCHANGED <<demVars, stagingVars, samplerVars, rasterVars, quotaVars>>

\* One step of the pipeline: it returns and the next one starts, or it raises.
\* _geocode cannot create its output rasters for a bbox without pixels.
RunStage(p) ==
    /\ pc[p] \in StageSet \ {"_prepare_dem"}
    /\ Call(p, pc[p])
    /\ \E o \in (IF pc[p] = "_geocode" /\ ~HasPixels(bbox[p], GeoPixel)
                  THEN ErrMsgs ELSE StageOutcomes(pc[p])) :
         IF o = Ok
           THEN Goto(p, NextStage(pc[p])) /\ UNCHANGED <<exc, raised>>
           ELSE RaiseInProcessPair(p, Exception(pc[p], "Exception", <<o>>,
                                                <<"handler", "process_pair", StageFn(pc[p])>>))
    /\ UNCHANGED <<input, storageBucket, validation, result, response, returned, outcome,
                   webhookLog, cleanupFailed, dirs, granuleFile>>
    /\ UNCHANGED <<demVars, stagingVars, samplerVars, rasterVars, quotaVars>>

----------------------------------------------------------------------------
(* isce3_processor.py: _prepare_dem and _create_synthetic_dem *)

\* Coordinates are whole numbers of 0.0001 degree.
Margin == 1000

DemPixel == 3

Hundredth == 100

SyntheticElevation == 100

NoElevation == -1

\* f"{x:.2f}": the nearest hundredth of a degree.
Round2(x) == ((x + Hundredth \div 2) \div Hundredth) * Hundredth

\* north/south/east/west with the margin
Expanded(b) ==
    [north |-> b.north + Margin, south |-> b.south - Margin,
     east |-> b.east + Margin, west |-> b.west - Margin]

\* The four numbers of dem_filename, in its order: south, west, north, east.
DemKey(b) ==
    <<Round2(Expanded(b).south), Round2(Expanded(b).west),
      Round2(Expanded(b).north), Round2(Expanded(b).east)>>

DemKeys == {DemKey(b) : b \in BBoxes \cup {InvertedBBox}}

\* dem_path = self.dem_dir / dem_filename
DemPath(k) == <<"/data/dem", "dem_", k[1], "_", k[2], "_", k[3], "_", k[4], ".tif">>

\* gdal.Warp(..., outputBounds=[west, south, east, north]) with the margin
WarpExtent(b) == Expanded(b)

\* _create_synthetic_dem(dem_path, bbox): width and height pixels of pixel_size from
\* the corner (bbox["west"], bbox["north"]) of the bbox it is given.
SyntheticExtent(b) ==
    LET width  == IntDiv(b.east - b.west, DemPixel)
        height == IntDiv(b.north - b.south, DemPixel)
    IN  [north |-> b.north, south |-> b.north - height * DemPixel,
         east |-> b.west + width * DemPixel, west |-> b.west]

NoDemFile ==
    [state |-> "absent", kind |-> "none", extent |-> NoBBox, elevation |-> NoElevation,
     writes |-> 0, writers |-> {}]

NoDemCall ==
    [called |-> FALSE, key |-> <<>>, after |-> {}, hit |-> FALSE, sawState |-> "none",
     sawWriters |-> {}, fetches |-> 0, writes |-> 0, fetchFailed |-> FALSE,
     returned |-> FALSE, path |-> <<>>]

DemCachedNever(f) == FALSE

\* dem_path.exists()
DemCached(f) == f.state # "absent"

\* A writer opens the file at the path: it is created or cut to nothing.
DemOpen(f, p, kind, extent, elevation) ==
    [state |-> "partial", kind |-> kind, extent |-> extent, elevation |-> elevation,
     writes |-> f.writes + 1, writers |-> f.writers \cup {p}]

\* A writer closes the file: whole when it wrote everything and nobody else is writing.
DemClose(f, p, wroteAll) ==
    [f EXCEPT !.writers = @ \ {p},
              !.state = IF wroteAll /\ f.writers \ {p} = {} THEN "complete" ELSE "partial"]

DemReturn(p) ==
    /\ Goto(p, NextStage("_prepare_dem"))
    /\ UNCHANGED <<exc, raised>>

\* The cache look-up of _prepare_dem.
PrepareDem(p) ==
    /\ pc[p] = "_prepare_dem"
    /\ Call(p, "_prepare_dem")
    /\ LET k == DemKey(bbox[p])
           cached == DemCached(demFile[k])
       IN  /\ demCall' = [demCall EXCEPT ![p] =
                            [NoDemCall EXCEPT !.called = TRUE, !.key = k,
                                              !.after = {q \in Workers : demCall[q].returned},
                                              !.hit = cached,
                                              !.sawState = demFile[k].state,
                                              !.sawWriters = demFile[k].writers,
                                              !.returned = cached,
                                              !.path = IF cached THEN DemPath(k) ELSE <<>>]]
           /\ IF cached THEN DemReturn(p)
                        ELSE Goto(p, "dem_warp") /\ UNCHANGED <<exc, raised>>
    /\ UNCHANGED <<bbox, demFile, handlerVars, stagingVars, samplerVars, rasterVars, quotaVars>>

WarpFailureRaises(p, o) ==
    RaiseInProcessPair(p, Exception("_prepare_dem", "RuntimeError", <<o>>,
                                    <<"handler", "process_pair", "_prepare_dem">>))

\* except Exception as e: logger.warning(...), and ds is None: both go on to the
\* synthetic DEM.
WarpFailure(p, o) ==
    /\ Goto(p, "dem_synth")
    /\ UNCHANGED <<exc, raised>>

\* gdal.Warp opens the source: it raises or yields nothing, or it creates dem_path.
DemWarp(p) ==
    /\ pc[p] = "dem_warp"
    /\ LET k == demCall[p].key IN
       \E o \in {Ok, "none"} \cup ErrMsgs :
         IF o = Ok
           THEN /\ demFile' = [demFile EXCEPT ![k] =
                                 DemOpen(@, p, "copernicus", WarpExtent(bbox[p]), NoElevation)]
                /\ demCall' = [demCall EXCEPT ![p].fetches = @ + 1, ![p].writes = @ + 1]
                /\ Goto(p, "dem_warp_write")
                /\ UNCHANGED <<exc, raised>>
           ELSE /\ demCall' = [demCall EXCEPT ![p].fetches = @ + 1, ![p].fetchFailed = TRUE]
                /\ WarpFailure(p, o)
                /\ UNCHANGED demFile
    /\ UNCHANGED <<bbox, calls, handlerVars, stagingVars, samplerVars, rasterVars, quotaVars>>

\* gdal.Warp writes the tile and returns the dataset, or raises part way.
DemWarpWrite(p) ==
    /\ pc[p] = "dem_warp_write"
    /\ LET k == demCall[p].key IN
       \E o \in Outcomes :
         /\ demFile' = [demFile EXCEPT ![k] = DemClose(@, p, o = Ok)]
         /\ IF o = Ok
              THEN /\ demCall' = [demCall EXCEPT ![p].returned = TRUE, ![p].path = DemPath(k)]
                   /\ DemReturn(p)
              ELSE /\ demCall' = [demCall EXCEPT ![p].fetchFailed = TRUE]
                   /\ WarpFailure(p, o)
    /\ UNCHANGED <<bbox, calls, handlerVars, stagingVars, samplerVars, rasterVars, quotaVars>>

SyntheticRaise(p, o) ==
    RaiseInProcessPair(p, Exception("_prepare_dem", "RuntimeError", <<o>>,
                                    <<"handler", "process_pair", "_prepare_dem",
                                      "_create_synthetic_dem">>))

\* self._create_synthetic_dem(dem_path, bbox): driver.Create at dem_path, which
\* raises for a raster without pixels.
DemSynth(p) ==
    /\ pc[p] = "dem_synth"
    /\ LET k == demCall[p].key IN
       \E o \in (IF HasPixels(bbox[p], DemPixel) THEN Outcomes ELSE ErrMsgs) :
         IF o = Ok
           THEN /\ demFile' = [demFile EXCEPT ![k] =
                                 DemOpen(@, p, "synthetic", SyntheticExtent(bbox[p]),
                                         SyntheticElevation)]
                /\ demCall' = [demCall EXCEPT ![p].writes = @ + 1]
                /\ Goto(p, "dem_synth_write")
                /\ UNCHANGED <<exc, raised>>
           ELSE /\ SyntheticRaise(p, o)
                /\ UNCHANGED <<demFile, demCall>>
    /\ UNCHANGED <<bbox, calls, handlerVars, stagingVars, samplerVars, rasterVars, quotaVars>>

\* geotransform, projection, WriteArray, nodata, close; return str(dem_path).
DemSynthWrite(p) ==
    /\ pc[p] = "dem_synth_write"
    /\ LET k == demCall[p].key IN
       \E o \in Outcomes :
         /\ demFile' = [demFile EXCEPT ![k] = DemClose(@, p, o = Ok)]
         /\ IF o = Ok
              THEN /\ demCall' = [demCall EXCEPT ![p].returned = TRUE, ![p].path = DemPath(k)]
                   /\ DemReturn(p)
              ELSE /\ SyntheticRaise(p, o)
                   /\ UNCHANGED demCall
    /\ UNCHANGED <<bbox, calls, handlerVars, stagingVars, samplerVars, rasterVars, quotaVars>>

----------------------------------------------------------------------------
(* isce3_processor.py: the end of process_pair *)

\* result.update({"success": True, ...}); return result
ProcessPairSuccess(p) ==
    /\ pc[p] = "pp_success"
    /\ result' = [result EXCEPT ![p] = [success |-> TRUE, error |-> <<>>, set |-> TRUE]]
    /\ Goto(p, "check_result")
    /\ UNCHANGED <<input, storageBucket, validation, exc, raised, response, returned, outcome,
                   calls, webhookLog, cleanupFailed, dirs, granuleFile>>
    /\ UNCHANGED <<demVars, stagingVars, samplerVars, rasterVars, quotaVars>>

\* except Exception as e: result["error"] = str(e); return result
ProcessPairExcept(p) ==
    /\ pc[p] = "pp_except"
    /\ result' = [result EXCEPT ![p] = [success |-> FALSE, error |-> exc[p].msg, set |-> TRUE]]
    /\ exc' = [exc EXCEPT ![p] = NoExc]
    /\ Goto(p, "check_result")
    /\ UNCHANGED <<input, storageBucket, validation, raised, response, returned, outcome,
                   calls, webhookLog, cleanupFailed, dirs, granuleFile>>
    /\ UNCHANGED <<demVars, stagingVars, samplerVars, rasterVars, quotaVars>>

----------------------------------------------------------------------------
(* utils.py: extract_displacement_at_points *)

\* Positions are whole numbers of half a pixel: the raster's corner is at
\* (OriginX, OriginY), a pixel is PixelWidth wide and -PixelHeight high.
OriginX == 10

OriginY == 20

PixelWidth == 2

PixelHeight == -2

DefaultNoData == -9999

\* A float of the raster: NaN or a number.
NaN == [nan |-> TRUE, v |-> 0]

Num(v) == [nan |-> FALSE, v |-> v]

\* None, or a value.
None == <<>>

Some(v) == <<v>>

\* disp_data[py, px] with py, px counted from 0
RasterData ==
    <<<<Num(5), Num(DefaultNoData)>>,
      <<NaN, Num(0)>>>>

\* disp_data.shape[0] and disp_data.shape[1]
Rows(r) == Len(r.data)

Cols(r) == Len(r.data[1])

\* The rasters: what GetNoDataValue() gives (None, 0 or -9999), whether gdal.Open
\* opens it, whether a coherence raster comes with it.
Rasters ==
    { r \in [opens : BOOLEAN, nodata : {None, Some(0), Some(DefaultNoData)},
              gt : {<<OriginX, PixelWidth, OriginY, PixelHeight>>},
              data : {RasterData}, coherence : BOOLEAN] :
        (~r.opens \/ ~r.coherence) => r.nodata = Some(DefaultNoData) }

IdleRaster ==
    [opens |-> FALSE, nodata |-> None, gt |-> <<OriginX, PixelWidth, OriginY, PixelHeight>>,
     data |-> RasterData, coherence |-> FALSE]

LonValues == {None, Some(7), Some(9), Some(10), Some(13), Some(14)}

LatValues == {None, Some(23), Some(21), Some(20), Some(17), Some(16)}

\* Inside the raster in that coordinate.
InsideLon == {Some(10), Some(13)}

InsideLat == {Some(20), Some(17)}

\* The points asked for: at most one coordinate missing or outside, or the point half
\* a pixel north-west of the corner, or no coordinate at all.
Points ==
    { pt \in [id : {"p1", "p2"}, lat : LatValues, lon : LonValues] :
        \/ pt.lat \in InsideLat
        \/ pt.lon \in InsideLon
        \/ pt.lat = Some(21) /\ pt.lon = Some(9)
        \/ pt.lat = None /\ pt.lon = None }

MaxPoints == 2

PointLists == UNION {[1..n -> Points] : n \in 0..MaxPoints}

\* disp_band.GetNoDataValue() or -9999: None and 0.0 are falsy.
NoDataOf(r) == IF r.nodata = None \/ r.nodata = Some(0) THEN DefaultNoData ELSE r.nodata[1]

\* px = int((lon - gt[0]) / gt[1]), py = int((lat - gt[3]) / gt[5])
PixelX(r, lon) == IntDiv(lon - r.gt[1], r.gt[2])

PixelY(r, lat) == IntDiv(lat - r.gt[3], r.gt[4])

\* The coherence raster of the model holds 1 everywhere.
CoherenceAt(r, py, px) == IF r.coherence THEN Some(1) ELSE None

ValidValueWithoutNaNTest(r, v) == v.nan \/ v.v # NoDataOf(r)

\* valid = (disp_value != disp_nodata) and not np.isnan(disp_value); NaN differs from
\* every number.
ValidValue(r, v) == (v.nan \/ v.v # NoDataOf(r)) /\ ~v.nan

\* The entry of a point without lat or lon.
MissingEntry(pt) ==
    [point_id |-> pt.id, displacement_mm |-> None, coherence |-> None,
     valid |-> FALSE, error |-> "Missing coordinates"]

\* The entry of a point whose pixel is not in the array.
OutsideEntry(pt) ==
    [point_id |-> pt.id, displacement_mm |-> None, coherence |-> None,
     valid |-> FALSE, error |-> "Point outside raster bounds"]

\* The entry of a point that has both coordinates.
LocatedPoint(r, pt) ==
    LET px == PixelX(r, pt.lon[1])
        py == PixelY(r, pt.lat[1])
    IN  IF px < 0 \/ px >= Cols(r) \/ py < 0 \/ py >= Rows(r)
          THEN OutsideEntry(pt)
          ELSE LET disp_value == r.data[py + 1][px + 1]
                   valid == ValidValue(r, disp_value)
               IN  [point_id |-> pt.id,
                    displacement_mm |-> IF valid THEN Some(disp_value.v) ELSE None,
                    coherence |-> CoherenceAt(r, py, px),
                    valid |-> valid, lat |-> pt.lat[1], lon |-> pt.lon[1]]

SamplePointMissingAsOutside(r, pt) ==
    IF pt.lat = None \/ pt.lon = None THEN OutsideEntry(pt) ELSE LocatedPoint(r, pt)

\* The body of the loop: the result entry of one point.
SamplePoint(r, pt) ==
    IF pt.lat = None \/ pt.lon = None THEN MissingEntry(pt) ELSE LocatedPoint(r, pt)

\* The loop left at the first point that is not valid.
extract_until_invalid(r, pts) ==
    LET bad == {k \in DOMAIN pts : ~SamplePoint(r, pts[k]).valid}
        last == IF bad = {} THEN Len(pts) ELSE CHOOSE k \in bad : \A j \in bad : k <= j
    IN  IF ~r.opens THEN <<>> ELSE [k \in 1..last |-> SamplePoint(r, pts[k])]

\* The list returned: empty when the raster does not open, else one entry per point.
extract_displacement_at_points(r, pts) ==
    IF ~r.opens THEN <<>> ELSE [k \in DOMAIN pts |-> SamplePoint(r, pts[k])]

\* The points of a job that asks for points: one without longitude, then one on the
\* raster.
JobPoints ==
    <<[id |-> "p1", lat |-> Some(17), lon |-> None],
      [id |-> "p2", lat |-> Some(20), lon |-> Some(10)]>>

\* points = job_input.get("points", [])
RequestedPoints(i) == IF Truthy(i.points) THEN JobPoints ELSE <<>>

\* The displacement raster _geocode wrote for the job, with its coherence raster.
JobRaster ==
    [opens |-> TRUE, nodata |-> Some(DefaultNoData),
     gt |-> <<OriginX, PixelWidth, OriginY, PixelHeight>>,
     data |-> RasterData, coherence |-> TRUE]

\* displacement_results: [] unless there are points, else what
\* extract_displacement_at_points returned.
displacement_results(i) ==
    IF Truthy(i.points)
      THEN extract_displacement_at_points(JobRaster, RequestedPoints(i))
      ELSE <<>>

NotSampled == [done |-> FALSE, results |-> <<>>]

\* One call of extract_displacement_at_points(raster, coherence, points).
ExtractAtPoints ==
    /\ ~samples.done
    /\ samples' = [done |-> TRUE, results |-> extract_displacement_at_points(raster, samplePoints)]
    /\ UNCHANGED <<raster, samplePoints, pc, exc, raised, calls, handlerVars, demVars,
                   stagingVars, rasterVars, quotaVars>>

----------------------------------------------------------------------------
(* isce3_processor.py: _geocode *)

\* Fixed point: a phase is a whole number of 0.1 rad, a displacement a whole number
\* of 0.0001 mm, RAD_TO_MM a whole number of 0.001 mm per rad.  A raster is a
\* sequence of rows, each a sequence of pixels.

NoRasterCall == [none |-> TRUE]

\* SENTINEL1_WAVELENGTH_M = 0.0555041, in units of 1e-7 m
WavelengthE7 == 555041

\* 4 * np.pi, in units of 1e-4
FourPiE4 == 125664

RAD_TO_MM_without_1000 == WavelengthE7 \div FourPiE4

\* RAD_TO_MM = (SENTINEL1_WAVELENGTH_M * 1000) / (4 * np.pi)
RAD_TO_MM == (WavelengthE7 * 1000) \div FourPiE4

\* The nodata sentinel -9999 as a phase, and as a displacement in mm (band.SetNoDataValue(-9999)).
PhaseNoData == DefaultNoData * 10

DisplacementNoData == DefaultNoData * 10000

Abs(v) == IF v < 0 THEN -v ELSE v

\* The spacing of the float32 numbers around a: 24 bits of mantissa.
RECURSIVE Ulp(_)
Ulp(a) == IF a < 16777216 THEN 1 ELSE 2 * Ulp(a \div 2)

\* ndarray.astype(np.float32): the nearest number of 24 significant bits.
Float32(v) ==
    LET u == Ulp(Abs(v))
        m == ((Abs(v) + u \div 2) \div u) * u
    IN  IF v < 0 THEN -m ELSE m

\* scipy.ndimage.zoom along one axis, from n pixels to m: output pixel k (from 1)
\* is read at the input coordinate (k - 1) * (n - 1) / (m - 1), which lies r / d
\* of the way from input pixel i + 1 to input pixel i + 2.
ZoomAt(k, n, m) ==
    LET d == IF m = 1 THEN 1 ELSE m - 1
        c == (k - 1) * (n - 1)
    IN  [i |-> c \div d, r |-> c % d, d |-> d]

\* order=1: the value between two pixels is their linear interpolation.
Zoom1(row, m) ==
    [k \in 1..m |->
        LET at == ZoomAt(k, Len(row), m)
        IN  IF at.r = 0 THEN row[at.i + 1]
            ELSE (row[at.i + 1] * (at.d - at.r) + row[at.i + 2] * at.r) \div at.d]

\* zoom(a, (zoom_y, zoom_x), order=1): every row to width w, then every column to height h.
zoom(a, h, w) ==
    LET wide == [i \in DOMAIN a |-> Zoom1(a[i], w)]
    IN  [i \in 1..h |-> [j \in 1..w |-> Zoom1([k \in DOMAIN a |-> wide[k][j]], h)[i]]]

\* _geocode: the phase of every pixel times RAD_TO_MM, resampled to the grid of the
\* bbox and written as float32 with nodata -9999.  A grid without pixels cannot be
\* created: driver.Create raises.
geocode(phase, bb) ==
    LET displacement_mm == [i \in DOMAIN phase |-> [j \in DOMAIN phase[i] |-> phase[i][j] * RAD_TO_MM]]
        width == IntDiv(bb.east - bb.west, GeoPixel)
        height == IntDiv(bb.north - bb.south, GeoPixel)
    IN  IF width < 1 \/ height < 1
          THEN [error |-> TRUE, width |-> width, height |-> height, nodata |-> DisplacementNoData,
                gt |-> <<bb.west, GeoPixel, bb.north, -GeoPixel>>, data |-> <<>>]
          ELSE [error |-> FALSE, width |-> width, height |-> height, nodata |-> DisplacementNoData,
                gt |-> <<bb.west, GeoPixel, bb.north, -GeoPixel>>,
                data |-> LET z == zoom(displacement_mm, height, width)
                         IN  [i \in 1..height |-> [j \in 1..width |-> Float32(z[i][j])]]]

\* The unwrapped rasters under observation: two rows of two pixels.
PhaseValues == {PhaseNoData, -31, 0, 20}

PhaseRasters == {<<<<a, b>>, <<c, d>>>> : a \in PhaseValues, b \in PhaseValues,
                                           c \in PhaseValues, d \in PhaseValues}

\* Output grids of 0, 2 or 3 columns and 2 or 3 rows.
GeoBBoxes == {[north |-> n, south |-> 0, east |-> e, west |-> 0] : n \in {2, 3}, e \in {0, 2, 3}}

\* One call of _geocode.
Geocode ==
    /\ geoIn # NoRasterCall
    /\ geoOut = NoRasterCall
    /\ geoOut' = geocode(geoIn.phase, geoIn.bbox)
    /\ UNCHANGED <<geoIn, unwrapIn, unwrapOut, pc, exc, raised, calls, handlerVars, demVars,
                   stagingVars, samplerVars, quotaVars>>

----------------------------------------------------------------------------
(* isce3_processor.py: _unwrap_phase *)

\* A wrapped phase is a whole number of quarters of pi: the period 2 * pi is 8.
Period == 8

\* np.unwrap's correction for the step dd between two neighbours: the step is
\* brought into [-pi, pi) (a step of -pi that came from a positive one becomes pi),
\* and steps smaller than pi are left alone.
PhaseCorrection(dd) ==
    LET half == Period \div 2
        m == ((dd + half) % Period) - half
        ddmod == IF m = -half /\ dd > 0 THEN half ELSE m
    IN  IF Abs(dd) < half THEN 0 ELSE ddmod - dd

\* ph_correct.cumsum(): the corrections of the steps up to pixel k.
RECURSIVE CumulativeCorrection(_, _)
CumulativeCorrection(row, k) ==
    IF k <= 1 THEN 0
    ELSE CumulativeCorrection(row, k - 1) + PhaseCorrection(row[k] - row[k - 1])

\* np.unwrap along one axis
Unwrap1(row) == [k \in DOMAIN row |-> row[k] + CumulativeCorrection(row, k)]

\* np.unwrap(a, axis=0): down every column
UnwrapAxis0(a) ==
    [i \in DOMAIN a |-> [j \in DOMAIN a[i] |-> Unwrap1([k \in DOMAIN a |-> a[k][j]])[i]]]

\* np.unwrap(a, axis=1): along every row
UnwrapAxis1(a) == [i \in DOMAIN a |-> Unwrap1(a[i])]

\* _unwrap_phase(filtered_ifg, coherence, dirs): the filtered interferogram is read
\* and unwrapped over all its pixels, written as float32; the coherence file is not opened.
unwrap_phase(wrapped_phase, coherence) ==
    LET unwrapped == UnwrapAxis1(UnwrapAxis0(wrapped_phase))
    IN  [i \in DOMAIN unwrapped |-> [j \in DOMAIN unwrapped[i] |-> Float32(unwrapped[i][j])]]

\* The filtered interferograms under observation: two rows of two pixels, each
\* -3/4 pi, 0 or 3/4 pi.
WrappedValues == {-3, 0, 3}

WrappedRasters == {<<<<a, b>>, <<c, d>>>> : a \in WrappedValues, b \in WrappedValues,
                                             c \in WrappedValues, d \in WrappedValues}

\* Coherence in tenths, or the nodata sentinel where it is undefined.
CoherenceValues == {DefaultNoData, 8}

CoherenceRasters == {<<<<a, b>>, <<c, d>>>> : a \in CoherenceValues, b \in CoherenceValues,
                                               c \in CoherenceValues, d \in CoherenceValues}

\* One call of _unwrap_phase.
UnwrapPhase ==
    /\ unwrapIn # NoRasterCall
    /\ unwrapOut = NoRasterCall
    /\ unwrapOut' = [data |-> unwrap_phase(unwrapIn.phase, unwrapIn.coherence)]
    /\ UNCHANGED <<unwrapIn, geoIn, geoOut, pc, exc, raised, calls, handlerVars, demVars,
                   stagingVars, samplerVars, quotaVars>>

----------------------------------------------------------------------------
(* handler.py: handler, after the processing pipeline *)

CheckResultIgnored(p) ==
    /\ pc[p] = "check_result"
    /\ Goto(p, "extract_points")
    /\ UNCHANGED <<input, storageBucket, validation, exc, raised, result, response, returned,
                   outcome, calls, webhookLog, cleanupFailed, dirs, granuleFile>>
    /\ UNCHANGED <<demVars, stagingVars, samplerVars, rasterVars, quotaVars>>

\* if not processing_result["success"]: raise RuntimeError(f"ISCE3 processing failed: ...")
CheckResult(p) ==
    /\ pc[p] = "check_result"
    /\ IF result[p].success
         THEN Goto(p, "extract_points") /\ UNCHANGED <<exc, raised>>
         ELSE RaiseInHandler(p, Exception("handler", "RuntimeError",
                                          <<"ISCE3 processing failed: ">> \o result[p].error,
                                          <<"handler">>))
    /\ UNCHANGED <<input, storageBucket, validation, result, response, returned,
                   outcome, calls, webhookLog, cleanupFailed, dirs, granuleFile>>
    /\ UNCHANGED <<demVars, stagingVars, samplerVars, rasterVars, quotaVars>>

\* Step 4: extract_displacement_at_points, when there are points.  process_pair has
\* called gdal.UseExceptions() in this process, so a raster that does not open raises
\* here instead of giving the empty list.
ExtractPoints(p) ==
    /\ pc[p] = "extract_points"
    /\ IF Truthy(input[p].points)
         THEN /\ Call(p, "extract_displacement_at_points")
              /\ \E o \in Outcomes :
                   IF o = Ok
                     THEN Goto(p, "upload") /\ UNCHANGED <<exc, raised>>
                     ELSE RaiseInHandler(p, Exception("extract_displacement_at_points", "Exception", <<o>>,
                                                      <<"handler", "extract_displacement_at_points">>))
         ELSE Goto(p, "upload") /\ UNCHANGED <<exc, raised, calls>>
    /\ UNCHANGED <<input, storageBucket, validation, result, response, returned,
                   outcome, webhookLog, cleanupFailed, dirs, granuleFile>>
    /\ UNCHANGED <<demVars, stagingVars, samplerVars, rasterVars, quotaVars>>


\* Where the artifacts a response refers to are kept: the local paths lie in the
\* job's working directory (the processor's work_dir is job_work_dir), the
\* presigned URLs designate objects in the bucket.
ArtifactHome(urls, id) == IF urls = "local_paths" THEN <<"OUTPUT_DIR", id>> ELSE <<"bucket", id>>

SuccessResponse(p, urls) ==
    [job_id |-> JobId(input[p]), status |-> "success",
     results |-> [null |-> FALSE, artifact_urls |-> urls,
                  displacement_points |-> displacement_results(input[p])],
     error |-> <<>>, error_trace |-> NoTrace]

\* Step 5: upload_results when STORAGE_BUCKET is set, else the local paths; the response dict.
Upload(p) ==
    /\ pc[p] = "upload"
    /\ IF storageBucket
         THEN /\ Call(p, "upload_results")
              /\ \E o \in Outcomes :
                   IF o = Ok
                     THEN /\ response' = [response EXCEPT ![p] = SuccessResponse(p, "presigned")]
                          /\ Goto(p, "notify_success")
                          /\ UNCHANGED <<exc, raised>>
                     ELSE /\ RaiseInHandler(p, Exception("upload_results", "Exception", <<o>>,
                                                         <<"handler", "upload_results">>))
                          /\ UNCHANGED response
         ELSE /\ response' = [response EXCEPT ![p] = SuccessResponse(p, "local_paths")]
              /\ Goto(p, "notify_success")
              /\ UNCHANGED <<exc, raised, calls>>
    /\ UNCHANGED <<input, storageBucket, validation, result, returned,
                   outcome, webhookLog, cleanupFailed, dirs, granuleFile>>
    /\ UNCHANGED <<demVars, stagingVars, samplerVars, rasterVars, quotaVars>>

notify_webhook_raising(delivered) == [value |-> delivered, raises |-> ~delivered]

\* utils.notify_webhook: True when the POST was answered 2xx; every exception of the
\* POST is caught, logged and turned into False.
notify_webhook(delivered) == [value |-> delivered, raises |-> FALSE]

\* Step 6: notify_webhook(webhook_url, response) when a webhook_url was given; return response.
NotifySuccess(p) ==
    /\ pc[p] = "notify_success"
    /\ IF Truthy(input[p].webhook_url)
         THEN /\ Call(p, "notify_webhook")
              /\ \E delivered \in BOOLEAN :
                   LET r == notify_webhook(delivered) IN
                   /\ webhookLog' = [webhookLog EXCEPT ![p] =
                                        Append(@, [payload |-> response[p], ok |-> r.value])]
                   /\ IF r.raises
                        THEN RaiseInHandler(p, Exception("notify_webhook", "RequestException",
                                                         <<"webhook">>, <<"handler", "notify_webhook">>))
                        ELSE Goto(p, "finally_ok") /\ UNCHANGED <<exc, raised>>
         ELSE Goto(p, "finally_ok") /\ UNCHANGED <<exc, raised, calls, webhookLog>>
    /\ UNCHANGED <<input, storageBucket, validation, result, response, returned,
                   outcome, cleanupFailed, dirs, granuleFile>>
    /\ UNCHANGED <<demVars, stagingVars, samplerVars, rasterVars, quotaVars>>


format_exc_outside_except(e) == NoTrace

\* traceback.format_exc(): the frames from handler down to the raise, the type, the message.
format_exc(e) == [frames |-> e.frames, type |-> e.type, msg |-> e.msg]

\* except Exception as e: the error response from str(e) and traceback.format_exc().
Except(p) ==
    /\ pc[p] = "except"
    /\ response' = [response EXCEPT ![p] =
                       [job_id |-> JobId(input[p]), status |-> "error", results |-> NoResults,
                        error |-> exc[p].msg, error_trace |-> format_exc(exc[p])]]
    /\ Goto(p, "notify_failure")
    /\ UNCHANGED <<input, storageBucket, validation, exc, raised, result, returned,
                   outcome, calls, webhookLog, cleanupFailed, dirs, granuleFile>>
    /\ UNCHANGED <<demVars, stagingVars, samplerVars, rasterVars, quotaVars>>

NotifyFailureSilent(p) ==
    /\ pc[p] = "notify_failure"
    /\ Goto(p, "finally_err")
    /\ UNCHANGED <<input, storageBucket, validation, exc, raised, result, response, returned,
                   outcome, calls, webhookLog, cleanupFailed, dirs, granuleFile>>
    /\ UNCHANGED <<demVars, stagingVars, samplerVars, rasterVars, quotaVars>>

\* Notify webhook of failure, inside try/except: pass; return response.
NotifyFailure(p) ==
    /\ pc[p] = "notify_failure"
    /\ IF Truthy(input[p].webhook_url)
         THEN /\ Call(p, "notify_webhook")
              /\ \E delivered \in BOOLEAN :
                   webhookLog' = [webhookLog EXCEPT ![p] =
                                    Append(@, [payload |-> response[p],
                                               ok |-> notify_webhook(delivered).value])]
         ELSE UNCHANGED <<calls, webhookLog>>
    /\ Goto(p, "finally_err")
    /\ UNCHANGED <<input, storageBucket, validation, exc, raised, result, response, returned,
                   outcome, cleanupFailed, dirs, granuleFile>>
    /\ UNCHANGED <<demVars, stagingVars, samplerVars, rasterVars, quotaVars>>

cleanup_job_reraising(exists, rmtreeOk) ==
    [removed |-> exists /\ rmtreeOk, failed |-> exists /\ ~rmtreeOk, raises |-> exists /\ ~rmtreeOk]

cleanup_job_keeping(exists, rmtreeOk) ==
    [removed |-> FALSE, failed |-> FALSE, raises |-> FALSE]

\* cleanup_job: rmtree of OUTPUT_DIR / job_id when it exists; an exception of it is
\* caught and logged.
cleanup_job(exists, rmtreeOk) ==
    [removed |-> exists /\ rmtreeOk, failed |-> exists /\ ~rmtreeOk, raises |-> FALSE]

\* finally: cleanup_job(job_id); then the handler call ends with the pending return
\* value, or with the exception the finally block raised.
Finally(p) ==
    /\ pc[p] \in {"finally_ok", "finally_err"}
    /\ Call(p, "cleanup_job")
    /\ \E rmtreeOk \in (IF Exists(dirs, JobId(input[p])) THEN BOOLEAN ELSE {TRUE}) :
         LET c == cleanup_job(Exists(dirs, JobId(input[p])), rmtreeOk) IN
         /\ dirs' = IF c.removed THEN Rmtree(dirs, JobId(input[p])) ELSE dirs
         /\ cleanupFailed' = [cleanupFailed EXCEPT ![p] = c.failed]
         /\ outcome' = [outcome EXCEPT ![p] = IF c.raises THEN "raised" ELSE "returned"]
         /\ returned' = [returned EXCEPT ![p] = IF c.raises THEN NoResponse ELSE response[p]]
         /\ Goto(p, IF c.raises THEN "done_raised"
                     ELSE IF pc[p] = "finally_ok" THEN "done_ok" ELSE "done_err")
    /\ UNCHANGED <<input, storageBucket, validation, exc, raised, result, response,
                   webhookLog, granuleFile>>
    /\ UNCHANGED <<demVars, stagingVars, samplerVars, rasterVars, quotaVars>>

----------------------------------------------------------------------------
(* isce3_processor.py: _extract_safe, on the slc directory of one processor *)

MaxStageCalls == 3

\* What _extract_safe is given: a path, and for a zip the top-level names in it.  An
\* ASF product zip <name>.zip holds the directory <name>.SAFE.
Archives ==
    { [path |-> "gA.zip", zip |-> TRUE, stem |-> "gA", entries |-> {"gA.SAFE"}],
      [path |-> "gB.SAFE.zip", zip |-> TRUE, stem |-> "gB.SAFE", entries |-> {"gB.SAFE"}],
      [path |-> "gC.zip", zip |-> TRUE, stem |-> "gC", entries |-> {"measurement"}],
      [path |-> "gD.SAFE", zip |-> FALSE, stem |-> "gD", entries |-> {}] }

\* The names *.SAFE matches.
IsSafeName(n) == n \in {"gA.SAFE", "gB.SAFE"}

GlobOrders == {<<"gA.SAFE", "gB.SAFE">>, <<"gB.SAFE", "gA.SAFE">>}

\* list(extract_dir.parent.glob("*.SAFE")): the matching names in the directory's order.
Glob(d, order) == SelectSeq(order, LAMBDA n : n \in d /\ IsSafeName(n))

\* The value _extract_safe returns for archive a once the directory holds d.
SafePathOf(a, d, order) ==
    IF a.zip
      THEN IF Glob(d, order) # <<>> THEN <<"slc", Glob(d, order)[1]>> ELSE <<"slc", a.stem>>
      ELSE <<a.path>>

\* Whether the returned path names something that exists (a path given as a
\* directory is the caller's and is there).
PathExists(a, path, d) == IF a.zip THEN path[2] \in d ELSE TRUE

\* One call of _extract_safe(safe_path).
ExtractSafe ==
    /\ Len(stageLog) < MaxStageCalls
    /\ \E a \in Archives :
         \E o \in (IF a.zip /\ a.stem \notin slcDir THEN Outcomes ELSE {Ok}) :
           LET extracts == a.zip /\ a.stem \notin slcDir /\ o = Ok
               d == IF extracts THEN slcDir \cup a.entries ELSE slcDir
           IN  /\ slcDir' = d
               /\ stageLog' = Append(stageLog,
                                [archive |-> a.path,
                                 opened |-> a.zip /\ a.stem \notin slcDir,
                                 extracted |-> extracts,
                                 raised |-> o # Ok,
                                 path |-> IF o = Ok THEN SafePathOf(a, d, globOrder) ELSE <<>>,
                                 exists |-> o = Ok /\ PathExists(a, SafePathOf(a, d, globOrder), d)])
    /\ UNCHANGED <<globOrder, pc, exc, raised, calls, handlerVars, demVars, samplerVars, rasterVars, quotaVars>>

----------------------------------------------------------------------------
(* backend/streetsar/google_apis.py: QuantumQuotaManager *)

\* The members of APIProvider; _initialize_quotas gives a quota to the first two.
ApiProviders == {"street_view_static", "geocoding", "places"}

Providers == {"street_view_static", "geocoding"}

StreetView == "street_view_static"

\* The monthly quota of a provider (GOOGLE_*_QUOTA_LIMIT, at least 1000 in the
\* configuration), scaled down.
QuotaLimit == 2

\* A call asks for 1..MaxRequests requests; the default is 1.
MaxRequests == 3

quota_limit == [pr \in Providers |-> QuotaLimit]

\* The threads that call the quota manager directly.
Threads == {"a", "b"}

NoThread == "nobody"

NoQuotaCall == [at |-> "idle"]

Max(a, b) == IF a >= b THEN a ELSE b

\* APIQuotaMetrics.requests_remaining
requests_remaining(pr, current_usage) == Max(0, quota_limit[pr] - current_usage)

\* _reset_quota: the usage of the new period.
reset_quota == 0

\* check_quota_availability on a provider that has a quota: the usage it leaves
\* (a reset that is due is done first) and the value it returns.
check_quota_availability(pr, current_usage, due, requests_needed) ==
    LET usage == IF due THEN reset_quota ELSE current_usage
    IN  [current_usage |-> usage, ret |-> requests_remaining(pr, usage) >= requests_needed]

\* consume_quota, the whole call under the lock: raises APIQuotaExceededError when
\* check_quota_availability returns False, otherwise adds the requests.
consume_quota(pr, current_usage, due, requests_consumed) ==
    LET c == check_quota_availability(pr, current_usage, due, requests_consumed)
    IN  IF ~c.ret
          THEN [raised |-> TRUE, current_usage |-> c.current_usage]
          ELSE [raised |-> FALSE, current_usage |-> c.current_usage + requests_consumed]

\* A lock that every thread may take at any time.
LockIgnored(t) == TRUE

\* with self.lock: an RLock is free, or held by the calling thread already.
LockFree(t) == lockOwner \in {NoThread, t}

\* The clock reaches quota.reset_timestamp of a provider.
ResetFallsDue ==
    /\ \E pr \in Providers :
         /\ ~resetDue[pr]
         /\ resetDue' = [resetDue EXCEPT ![pr] = TRUE]
    /\ UNCHANGED <<currentUsage, lockOwner, quotaCall, quotaDone, fetchPc, issued>>
    /\ UNCHANGED <<pc, exc, raised, calls, handlerVars, demVars, stagingVars, samplerVars,
                   rasterVars>>

\* A thread calls check_quota_availability or consume_quota and takes the lock.
QuotaEnter(t) ==
    /\ quotaCall[t].at = "idle"
    /\ LockFree(t)
    /\ lockOwner' = t
    /\ \E op \in {"check", "consume"}, pr \in ApiProviders, n \in 1..MaxRequests :
         quotaCall' = [quotaCall EXCEPT ![t] =
                         [at |-> "locked", op |-> op, provider |-> pr, requests |-> n,
                          before |-> IF pr \in Providers THEN currentUsage[pr] ELSE 0]]
    /\ UNCHANGED <<currentUsage, resetDue, quotaDone, fetchPc, issued>>
    /\ UNCHANGED <<pc, exc, raised, calls, handlerVars, demVars, stagingVars, samplerVars,
                   rasterVars>>

\* The call ends: what it returned or raised, the usage it leaves, the lock released.
QuotaDone(t, ret, reset, seen, after) ==
    /\ quotaDone' = [at |-> "done", thread |-> t, op |-> quotaCall[t].op,
                     provider |-> quotaCall[t].provider, requests |-> quotaCall[t].requests,
                     before |-> quotaCall[t].before, reset |-> reset, seen |-> seen,
                     after |-> after, ret |-> ret]
    /\ quotaCall' = [quotaCall EXCEPT ![t] = NoQuotaCall]
    /\ lockOwner' = NoThread

\* The body of check_quota_availability, called directly or by consume_quota
\* (which holds the lock already): no quota for the provider returns False; a
\* reset that is due is done; consume_quota raises on False.
QuotaCheck(t) ==
    /\ quotaCall[t].at = "locked"
    /\ LET c == quotaCall[t]
           pr == c.provider
       IN  IF pr \notin Providers
             THEN /\ QuotaDone(t, "False", FALSE, 0, 0)
                  /\ UNCHANGED <<currentUsage, resetDue, issued>>
             ELSE LET k == check_quota_availability(pr, currentUsage[pr], resetDue[pr], c.requests)
                  IN  /\ currentUsage' = [currentUsage EXCEPT ![pr] = k.current_usage]
                      /\ resetDue' = [resetDue EXCEPT ![pr] = FALSE]
                      /\ issued' = IF resetDue[pr] /\ pr = StreetView THEN 0 ELSE issued
                      /\ IF c.op = "check"
                           THEN QuotaDone(t, IF k.ret THEN "True" ELSE "False", resetDue[pr],
                                          k.current_usage, k.current_usage)
                           ELSE IF ~k.ret
                                  THEN QuotaDone(t, "APIQuotaExceededError", resetDue[pr],
                                                 k.current_usage, k.current_usage)
                                  ELSE /\ quotaCall' = [quotaCall EXCEPT ![t] =
                                                          [at |-> "available", op |-> c.op,
                                                           provider |-> pr, requests |-> c.requests,
                                                           before |-> c.before, reset |-> resetDue[pr],
                                                           seen |-> k.current_usage]]
                                       /\ UNCHANGED <<lockOwner, quotaDone>>
    /\ UNCHANGED fetchPc
    /\ UNCHANGED <<pc, exc, raised, calls, handlerVars, demVars, stagingVars, samplerVars,
                   rasterVars>>

\* consume_quota after the check: quota.current_usage += requests_consumed.
QuotaAdd(t) ==
    /\ quotaCall[t].at = "available"
    /\ LET c == quotaCall[t]
           pr == c.provider
           usage == currentUsage[pr] + c.requests
       IN  /\ currentUsage' = [currentUsage EXCEPT ![pr] = usage]
           /\ QuotaDone(t, "True", c.reset, c.seen, usage)
    /\ UNCHANGED <<resetDue, fetchPc, issued>>
    /\ UNCHANGED <<pc, exc, raised, calls, handlerVars, demVars, stagingVars, samplerVars,
                   rasterVars>>


----------------------------------------------------------------------------
(* backend/streetsar/google_apis.py: QuantumStreetViewClient.fetch_panorama *)

\* The fetch_panorama coroutines of one event loop, each for a request that is not
\* in the cache.  A coroutine runs alone from one await to the next.
Tasks == {"t1", "t2", "t3"}

\* The HTTP status of the response: 200, or an error status.
Statuses == {200, 403}

\* fetch_panorama up to its first await: check_quota_availability, raising
\* APIQuotaExceededError on False; rate_limiter.acquire(), on False the await of
\* asyncio.sleep; otherwise _make_api_request sends the request and awaits the response.
FetchSend(t) ==
    /\ fetchPc[t] = "start"
    /\ lockOwner = NoThread
    /\ LET k == check_quota_availability(StreetView, currentUsage[StreetView],
                                         resetDue[StreetView], 1)
           sent == IF resetDue[StreetView] THEN 0 ELSE issued
       IN  /\ currentUsage' = [currentUsage EXCEPT ![StreetView] = k.current_usage]
           /\ resetDue' = [resetDue EXCEPT ![StreetView] = FALSE]
           /\ IF ~k.ret
                THEN /\ fetchPc' = [fetchPc EXCEPT ![t] = "APIQuotaExceededError"]
                     /\ issued' = sent
                ELSE \E acquired \in BOOLEAN :
                       IF acquired
                         THEN /\ fetchPc' = [fetchPc EXCEPT ![t] = "awaiting"]
                              /\ issued' = sent + 1
                         ELSE /\ fetchPc' = [fetchPc EXCEPT ![t] = "sleeping"]
                              /\ issued' = sent
    /\ UNCHANGED <<lockOwner, quotaCall, quotaDone>>
    /\ UNCHANGED <<pc, exc, raised, calls, handlerVars, demVars, stagingVars, samplerVars,
                   rasterVars>>

\* After asyncio.sleep: the second rate_limiter.acquire(); on False a
\* ProcessingTimeoutError, which the except block wraps in a StreetViewAPIError;
\* otherwise _make_api_request sends the request.
FetchRetry(t) ==
    /\ fetchPc[t] = "sleeping"
    /\ \E acquired \in BOOLEAN :
         IF acquired
           THEN /\ fetchPc' = [fetchPc EXCEPT ![t] = "awaiting"]
                /\ issued' = issued + 1
           ELSE /\ fetchPc' = [fetchPc EXCEPT ![t] = "StreetViewAPIError"]
                /\ UNCHANGED issued
    /\ UNCHANGED <<currentUsage, resetDue, lockOwner, quotaCall, quotaDone>>
    /\ UNCHANGED <<pc, exc, raised, calls, handlerVars, demVars, stagingVars, samplerVars,
                   rasterVars>>

\* The response arrives: a status other than 200 raises StreetViewAPIError out of
\* _make_api_request; after a 200, consume_quota, whose APIQuotaExceededError the
\* except block re-raises.
FetchResponse(t) ==
    /\ fetchPc[t] = "awaiting"
    /\ lockOwner = NoThread
    /\ \E status \in Statuses :
         IF status # 200
           THEN /\ fetchPc' = [fetchPc EXCEPT ![t] = "StreetViewAPIError"]
                /\ UNCHANGED <<currentUsage, resetDue, issued>>
           ELSE LET c == consume_quota(StreetView, currentUsage[StreetView],
                                       resetDue[StreetView], 1)
                IN  /\ currentUsage' = [currentUsage EXCEPT ![StreetView] = c.current_usage]
                    /\ resetDue' = [resetDue EXCEPT ![StreetView] = FALSE]
                    /\ issued' = IF resetDue[StreetView] THEN 0 ELSE issued
                    /\ fetchPc' = [fetchPc EXCEPT ![t] =
                                     IF c.raised THEN "APIQuotaExceededError" ELSE "returned"]
    /\ UNCHANGED <<lockOwner, quotaCall, quotaDone>>
    /\ UNCHANGED <<pc, exc, raised, calls, handlerVars, demVars, stagingVars, samplerVars,
                   rasterVars>>

\* Nothing calls the quota manager.
QuotaIdle ==
    /\ currentUsage = [pr \in Providers |-> 0]
    /\ resetDue = [pr \in Providers |-> FALSE]
    /\ lockOwner = NoThread
    /\ quotaCall = [t \in Threads |-> NoQuotaCall]
    /\ quotaDone = NoQuotaCall
    /\ fetchPc = [t \in Tasks |-> "idle"]
    /\ issued = 0

----------------------------------------------------------------------------
(* The orchestrator status of section 4.9, read off the position in the code *)

Status(p) ==
    CASE pc[p] \in {"idle", "start"} -> "Received"
      [] pc[p] = "validate" -> "Validating"
      [] pc[p] \in {"mkdir", "download_ref", "download_ref_stream", "download_sec",
                    "download_sec_stream", "init_processor", "process_pair",
                    "_create_directories", "_prepare_dem", "dem_warp", "dem_warp_write",
                    "dem_synth", "dem_synth_write",
                    "_extract_safe_ref", "_extract_safe_sec"} -> "Staging"
      [] pc[p] = "_coregister" -> "Coregistering"
      [] pc[p] = "_form_interferogram" -> "Interferogram"
      [] pc[p] = "_filter_phase" -> "Filtering"
      [] pc[p] = "_unwrap_phase" -> "Unwrapping"
      [] pc[p] \in {"_geocode", "_calculate_statistics", "pp_success"} -> "Geocoding"
      [] pc[p] = "check_result" -> IF result[p].success THEN "Geocoding" ELSE "Failed"
      [] pc[p] = "extract_points" -> "Extracting"
      [] pc[p] \in {"upload", "notify_success"} -> "Delivering"
      [] pc[p] \in {"finally_ok", "done_ok"} -> "Completed"
      [] pc[p] \in {"pp_except", "except", "notify_failure", "finally_err", "done_err"} -> "Failed"
      [] OTHER -> "Aborted"

----------------------------------------------------------------------------
(* The specification: one worker runs one job *)

IdleInput ==
    [job_id |-> Absent, reference_granule |-> Absent, secondary_granule |-> Absent,
     reference_url |-> Absent, secondary_url |-> Absent,
     reference_path |-> Absent, secondary_path |-> Absent,
     points |-> Absent, webhook_url |-> Absent]

\* No _extract_safe call is under observation.
StagingIdle ==
    /\ slcDir = {}
    /\ globOrder = <<"gA.SAFE", "gB.SAFE">>
    /\ stageLog = <<>>

\* No extract_displacement_at_points call is under observation.
SamplerIdle ==
    /\ raster = IdleRaster
    /\ samplePoints = <<>>
    /\ samples = [done |-> TRUE, results |-> <<>>]

\* No _unwrap_phase or _geocode call is under observation.
RasterIdle ==
    /\ unwrapIn = NoRasterCall
    /\ unwrapOut = NoRasterCall
    /\ geoIn = NoRasterCall
    /\ geoOut = NoRasterCall

\* No job is running and the DEM cache is empty.
HandlerIdle ==
    /\ input = [p \in Workers |-> IdleInput]
    /\ storageBucket = FALSE
    /\ pc = [p \in Workers |-> "idle"]
    /\ validation = [p \in Workers |-> NoValidation]
    /\ exc = [p \in Workers |-> NoExc]
    /\ raised = [p \in Workers |-> NoExc]
    /\ result = [p \in Workers |-> NoResult]
    /\ response = [p \in Workers |-> NoResponse]
    /\ returned = [p \in Workers |-> NoResponse]
    /\ outcome = [p \in Workers |-> "running"]
    /\ calls = [p \in Workers |-> <<>>]
    /\ webhookLog = [p \in Workers |-> <<>>]
    /\ cleanupFailed = [p \in Workers |-> FALSE]
    /\ dirs = {""}
    /\ granuleFile = [f \in GranuleFiles |-> "absent"]
    /\ bbox = [p \in Workers |-> NoBBox]
    /\ demFile = [k \in DemKeys |-> NoDemFile]
    /\ demCall = [p \in Workers |-> NoDemCall]

Init ==
    /\ \E i \in JobInputs : input = [p \in Workers |-> IF p = "w1" THEN i ELSE IdleInput]
    /\ storageBucket \in BOOLEAN
    /\ pc = [p \in Workers |-> IF p = "w1" THEN "start" ELSE "idle"]
    /\ validation = [p \in Workers |-> NoValidation]
    /\ exc = [p \in Workers |-> NoExc]
    /\ raised = [p \in Workers |-> NoExc]
    /\ result = [p \in Workers |-> NoResult]
    /\ response = [p \in Workers |-> NoResponse]
    /\ returned = [p \in Workers |-> NoResponse]
    /\ outcome = [p \in Workers |-> "running"]
    /\ calls = [p \in Workers |-> <<>>]
    /\ webhookLog = [p \in Workers |-> <<>>]
    /\ cleanupFailed = [p \in Workers |-> FALSE]
    /\ dirs = {""}
    /\ granuleFile = [f \in GranuleFiles |-> "absent"]
    /\ bbox = [p \in Workers |-> IF p = "w1" THEN JobBBox ELSE NoBBox]
    /\ demFile = [k \in DemKeys |-> NoDemFile]
    /\ demCall = [p \in Workers |-> NoDemCall]
    /\ StagingIdle
    /\ SamplerIdle
    /\ RasterIdle
    /\ QuotaIdle

Next ==
    \E p \in Workers :
        \/ Start(p)
        \/ Validate(p)
        \/ Mkdir(p)
        \/ DownloadBegin(p)
        \/ DownloadStream(p)
        \/ InitProcessor(p)
        \/ ProcessPairBegin(p)
        \/ RunStage(p)
        \/ PrepareDem(p)
        \/ DemWarp(p)
        \/ DemWarpWrite(p)
        \/ DemSynth(p)
        \/ DemSynthWrite(p)
        \/ ProcessPairSuccess(p)
        \/ ProcessPairExcept(p)
        \/ CheckResult(p)
        \/ ExtractPoints(p)
        \/ Upload(p)
        \/ NotifySuccess(p)
        \/ Except(p)
        \/ NotifyFailure(p)
        \/ Finally(p)

Spec == Init /\ [][Next]_vars

\* The handler is a sequential function run by one process: while a step of it is
\* possible, one is taken.  Every blocking call in it ends (requests timeout=30 in
\* download_granule, timeout=10 in notify_webhook), so no step lasts for ever.
FairSpec == Spec /\ WF_vars(Next)

----------------------------------------------------------------------------
(* Two jobs at once in the DEM step: the workers share DEM_DIR *)

DemJob(p) ==
    [job_id |-> IF p = "w1" THEN "j1" ELSE "j2",
     reference_granule |-> "gA", secondary_granule |-> "gB.zip",
     reference_url |-> "https://asf", secondary_url |-> "https://asf",
     reference_path |-> Absent, secondary_path |-> Absent,
     points |-> Absent, webhook_url |-> Absent]

\* Both jobs have been validated, have their granules and are about to call
\* _prepare_dem, each with a bbox of its own; the cache is empty.
InitDem ==
    /\ input = [p \in Workers |-> DemJob(p)]
    /\ storageBucket = FALSE
    /\ pc = [p \in Workers |-> "_prepare_dem"]
    /\ validation = [p \in Workers |-> [ran |-> TRUE, valid |-> TRUE, error |-> <<>>]]
    /\ exc = [p \in Workers |-> NoExc]
    /\ raised = [p \in Workers |-> NoExc]
    /\ result = [p \in Workers |-> [success |-> FALSE, error |-> <<>>, set |-> TRUE]]
    /\ response = [p \in Workers |-> NoResponse]
    /\ returned = [p \in Workers |-> NoResponse]
    /\ outcome = [p \in Workers |-> "running"]
    /\ calls = [p \in Workers |-> <<"validate_input", "mkdir", "download_ref", "download_sec",
                                    "ISCE3Processor", "process_pair", "_create_directories">>]
    /\ webhookLog = [p \in Workers |-> <<>>]
    /\ cleanupFailed = [p \in Workers |-> FALSE]
    /\ dirs = {"", "j1", "j2"}
    /\ granuleFile = [f \in GranuleFiles |-> "complete"]
    /\ bbox \in [Workers -> BBoxes]
    /\ demFile = [k \in DemKeys |-> NoDemFile]
    /\ demCall = [p \in Workers |-> NoDemCall]
    /\ StagingIdle
    /\ SamplerIdle
    /\ RasterIdle
    /\ QuotaIdle

NextDem ==
    \E p \in Workers :
        \/ PrepareDem(p)
        \/ DemWarp(p)
        \/ DemWarpWrite(p)
        \/ DemSynth(p)
        \/ DemSynthWrite(p)

SpecDem == InitDem /\ [][NextDem]_vars

----------------------------------------------------------------------------
(* _extract_safe called up to MaxStageCalls times on one processor *)

InitStaging ==
    /\ HandlerIdle
    /\ SamplerIdle
    /\ RasterIdle
    /\ QuotaIdle
    /\ slcDir = {}
    /\ globOrder \in GlobOrders
    /\ stageLog = <<>>

NextStaging == ExtractSafe

SpecStaging == InitStaging /\ [][NextStaging]_vars

----------------------------------------------------------------------------
(* extract_displacement_at_points called on a raster and a list of points *)

InitSampler ==
    /\ HandlerIdle
    /\ StagingIdle
    /\ raster \in Rasters
    /\ samplePoints \in PointLists
    /\ samples = NotSampled
    /\ RasterIdle
    /\ QuotaIdle

NextSampler == ExtractAtPoints

SpecSampler == InitSampler /\ [][NextSampler]_vars


----------------------------------------------------------------------------
(* Two jobs at once in the download step: the workers share INPUT_DIR *)

\* The first job asks for the pair (gA, gB.zip); the second for any pair of the two granules.
DownloadJob(p, ref, sec) ==
    [job_id |-> IF p = "w1" THEN "j1" ELSE "j2",
     reference_granule |-> ref, secondary_granule |-> sec,
     reference_url |-> "https://asf", secondary_url |-> "https://asf",
     reference_path |-> Absent, secondary_path |-> Absent,
     points |-> Absent, webhook_url |-> Absent]

\* Both jobs have been validated, have made their working directories and are about
\* to download their reference granules; INPUT_DIR is empty.
InitDownload ==
    /\ \E ref \in {"gA", "gB.zip"}, sec \in {"gA", "gB.zip"} :
         input = [p \in Workers |-> IF p = "w1" THEN DownloadJob(p, "gA", "gB.zip")
                                                ELSE DownloadJob(p, ref, sec)]
    /\ storageBucket = FALSE
    /\ pc = [p \in Workers |-> "download_ref"]
    /\ validation = [p \in Workers |-> [ran |-> TRUE, valid |-> TRUE, error |-> <<>>]]
    /\ exc = [p \in Workers |-> NoExc]
    /\ raised = [p \in Workers |-> NoExc]
    /\ result = [p \in Workers |-> NoResult]
    /\ response = [p \in Workers |-> NoResponse]
    /\ returned = [p \in Workers |-> NoResponse]
    /\ outcome = [p \in Workers |-> "running"]
    /\ calls = [p \in Workers |-> <<"validate_input", "mkdir">>]
    /\ webhookLog = [p \in Workers |-> <<>>]
    /\ cleanupFailed = [p \in Workers |-> FALSE]
    /\ dirs = {"", "j1", "j2"}
    /\ granuleFile = [f \in GranuleFiles |-> "absent"]
    /\ bbox = [p \in Workers |-> NoBBox]
    /\ demFile = [k \in DemKeys |-> NoDemFile]
    /\ demCall = [p \in Workers |-> NoDemCall]
    /\ StagingIdle
    /\ SamplerIdle
    /\ RasterIdle
    /\ QuotaIdle

NextDownload ==
    \E p \in Workers :
        \/ DownloadBegin(p)
        \/ DownloadStream(p)

SpecDownload == InitDownload /\ [][NextDownload]_vars


----------------------------------------------------------------------------
(* _geocode called on an unwrapped raster and a bbox *)

InitGeocode ==
    /\ HandlerIdle
    /\ StagingIdle
    /\ SamplerIdle
    /\ unwrapIn = NoRasterCall
    /\ unwrapOut = NoRasterCall
    /\ geoIn \in [phase : PhaseRasters, bbox : GeoBBoxes]
    /\ geoOut = NoRasterCall
    /\ QuotaIdle

NextGeocode == Geocode

SpecGeocode == InitGeocode /\ [][NextGeocode]_vars


----------------------------------------------------------------------------
(* One job whose input carries a bbox, well formed or not *)

\* A complete job: granules with URLs, points and a webhook.
BBoxJob ==
    [job_id |-> "j1",
     reference_granule |-> "gA", secondary_granule |-> "gB.zip",
     reference_url |-> "https://asf", secondary_url |-> "https://asf",
     reference_path |-> Absent, secondary_path |-> Absent,
     points |-> "pts", webhook_url |-> "https://hook"]

\* As Init, for that job and each bbox: job_input.get("bbox", {}) is handed to
\* process_pair as it comes.
InitBBox ==
    /\ input = [p \in Workers |-> IF p = "w1" THEN BBoxJob ELSE IdleInput]
    /\ storageBucket \in BOOLEAN
    /\ pc = [p \in Workers |-> IF p = "w1" THEN "start" ELSE "idle"]
    /\ validation = [p \in Workers |-> NoValidation]
    /\ exc = [p \in Workers |-> NoExc]
    /\ raised = [p \in Workers |-> NoExc]
    /\ result = [p \in Workers |-> NoResult]
    /\ response = [p \in Workers |-> NoResponse]
    /\ returned = [p \in Workers |-> NoResponse]
    /\ outcome = [p \in Workers |-> "running"]
    /\ calls = [p \in Workers |-> <<>>]
    /\ webhookLog = [p \in Workers |-> <<>>]
    /\ cleanupFailed = [p \in Workers |-> FALSE]
    /\ dirs = {""}
    /\ granuleFile = [f \in GranuleFiles |-> "absent"]
    /\ \E b \in BBoxes \cup {InvertedBBox} :
         bbox = [p \in Workers |-> IF p = "w1" THEN b ELSE NoBBox]
    /\ demFile = [k \in DemKeys |-> NoDemFile]
    /\ demCall = [p \in Workers |-> NoDemCall]
    /\ StagingIdle
    /\ SamplerIdle
    /\ RasterIdle
    /\ QuotaIdle

SpecBBox == InitBBox /\ [][Next]_vars


----------------------------------------------------------------------------
(* _unwrap_phase called on a filtered interferogram and a coherence raster *)

InitUnwrap ==
    /\ HandlerIdle
    /\ StagingIdle
    /\ SamplerIdle
    /\ unwrapIn \in [phase : WrappedRasters, coherence : CoherenceRasters]
    /\ unwrapOut = NoRasterCall
    /\ geoIn = NoRasterCall
    /\ geoOut = NoRasterCall
    /\ QuotaIdle

NextUnwrap == UnwrapPhase

SpecUnwrap == InitUnwrap /\ [][NextUnwrap]_vars


----------------------------------------------------------------------------
(* Two jobs at once up to the downloads: the workers share OUTPUT_DIR *)

\* The first job is complete and has the id j1; the second has another id, an
\* empty one or none, and is complete otherwise.
InitCleanup ==
    /\ \E id \in {Absent, Empty, "j2"} :
         input = [p \in Workers |-> IF p = "w1" THEN DownloadJob(p, "gA", "gB.zip")
                                                ELSE [DownloadJob(p, "gA", "gB.zip") EXCEPT !.job_id = id]]
    /\ storageBucket = FALSE
    /\ pc = [p \in Workers |-> "start"]
    /\ validation = [p \in Workers |-> NoValidation]
    /\ exc = [p \in Workers |-> NoExc]
    /\ raised = [p \in Workers |-> NoExc]
    /\ result = [p \in Workers |-> NoResult]
    /\ response = [p \in Workers |-> NoResponse]
    /\ returned = [p \in Workers |-> NoResponse]
    /\ outcome = [p \in Workers |-> "running"]
    /\ calls = [p \in Workers |-> <<>>]
    /\ webhookLog = [p \in Workers |-> <<>>]
    /\ cleanupFailed = [p \in Workers |-> FALSE]
    /\ dirs = {""}
    /\ granuleFile = [f \in GranuleFiles |-> "absent"]
    /\ bbox = [p \in Workers |-> NoBBox]
    /\ demFile = [k \in DemKeys |-> NoDemFile]
    /\ demCall = [p \in Workers |-> NoDemCall]
    /\ StagingIdle
    /\ SamplerIdle
    /\ RasterIdle
    /\ QuotaIdle

\* The handler up to the end of the downloads, and its except and finally blocks.
NextCleanup ==
    \E p \in Workers :
        \/ Start(p)
        \/ Validate(p)
        \/ Mkdir(p)
        \/ DownloadBegin(p)
        \/ DownloadStream(p)
        \/ Except(p)
        \/ NotifyFailure(p)
        \/ Finally(p)

SpecCleanup == InitCleanup /\ [][NextCleanup]_vars


----------------------------------------------------------------------------
(* Two threads call check_quota_availability and consume_quota at any time *)

InitQuota ==
    /\ HandlerIdle
    /\ StagingIdle
    /\ SamplerIdle
    /\ RasterIdle
    /\ QuotaIdle

NextQuota ==
    \/ ResetFallsDue
    \/ \E t \in Threads : QuotaEnter(t)
    \/ \E t \in Threads : QuotaCheck(t)
    \/ \E t \in Threads : QuotaAdd(t)

SpecQuota == InitQuota /\ [][NextQuota]_vars


----------------------------------------------------------------------------
(* Three fetch_panorama calls at once on one client *)

InitFetch ==
    /\ HandlerIdle
    /\ StagingIdle
    /\ SamplerIdle
    /\ RasterIdle
    /\ currentUsage = [pr \in Providers |-> 0]
    /\ resetDue = [pr \in Providers |-> FALSE]
    /\ lockOwner = NoThread
    /\ quotaCall = [t \in Threads |-> NoQuotaCall]
    /\ quotaDone = NoQuotaCall
    /\ fetchPc = [t \in Tasks |-> "start"]
    /\ issued = 0

NextFetch ==
    \/ ResetFallsDue
    \/ \E t \in Tasks : FetchSend(t)
    \/ \E t \in Tasks : FetchRetry(t)
    \/ \E t \in Tasks : FetchResponse(t)

SpecFetch == InitFetch /\ [][NextFetch]_vars

----------------------------------------------------------------------------
(* Properties *)

Range(s) == {s[k] : k \in DOMAIN s}

StatusChain ==
    <<"Received", "Validating", "Staging", "Coregistering", "Interferogram", "Filtering",
      "Unwrapping", "Geocoding", "Extracting", "Delivering", "Completed">>

InChain(a) == a \in Range(StatusChain)

Rank(a) == CHOOSE k \in DOMAIN StatusChain : StatusChain[k] = a

\* A legal move of the status: none, one step along the chain, or to Failed from a
\* status that is not terminal.
StatusStep(a, b) ==
    \/ a = b
    \/ InChain(a) /\ InChain(b) /\ Rank(b) = Rank(a) + 1
    \/ b = "Failed" /\ InChain(a) /\ a # "Completed"

IsStage(c) == c \in StageSet

\* The calls that do the work of a status (everything but notification and cleanup).
IsWork(c) == c \notin {"notify_webhook", "cleanup_job"}

NoRepeat(s) == \A j, k \in DOMAIN s : s[j] = s[k] => j = k

\* C1: the status of a job moves only one step at a time along Received, Validating,
\* Staging, Coregistering, Interferogram, Filtering, Unwrapping, Geocoding, Extracting,
\* Delivering, Completed, or to Failed; and a pipeline step is entered only when all
\* the steps before it have run, once each and in order.
C1_StatusAdvancesInOrder ==
    /\ [][\A p \in Workers : StatusStep(Status(p), Status(p)')]_vars
    /\ [](\A p \in Workers :
            pc[p] \in StageSet =>
              SelectSeq(calls[p], IsStage) = SubSeq(PipelineStages, 1, StageIndex(pc[p]) - 1))

C1_Witness ==
    \E p \in Workers :
        /\ Status(p) = "Completed"
        /\ outcome[p] = "returned"
        /\ SelectSeq(calls[p], IsStage) = PipelineStages

\* C2: once a validation, download or pipeline step of a job has raised, the job is
\* Failed and stays so: no further step is called, no step is ever called twice, and
\* the handler returns an error response.
C2_StageFailureIsFinal ==
    /\ [](\A p \in Workers :
            /\ NoRepeat(SelectSeq(calls[p], IsWork))
            /\ raised[p] # NoExc =>
                  /\ Status(p) = "Failed"
                  /\ outcome[p] = "returned" => returned[p].status = "error")
    /\ [][\A p \in Workers :
            raised[p] # NoExc =>
              /\ SelectSeq(calls'[p], IsWork) = SelectSeq(calls[p], IsWork)
              /\ Status(p)' = "Failed"]_vars

C2_Witness ==
    \E p \in Workers :
        /\ raised[p].stage = "_unwrap_phase"
        /\ outcome[p] = "returned"
        /\ returned[p].status = "error"

\* C3 as stated, for the jobs that passed validation (the ones that make a working
\* directory): when the handler has returned, cleanup_job has been called and the
\* working directory of the job does not exist.
C3_WorkDirGoneAfterReturn ==
    \A p \in Workers :
        (outcome[p] = "returned" /\ validation[p].valid) =>
          /\ "cleanup_job" \in Range(calls[p])
          /\ ~Exists(dirs, JobId(input[p]))

\* C3, amended: when the handler has returned, with a success or an error response and
\* also after an upload that raised, cleanup_job has been called, and the working
\* directory of the job does not exist unless its removal failed.
C3_CleanupBeforeReturn ==
    \A p \in Workers :
        outcome[p] = "returned" =>
          /\ "cleanup_job" \in Range(calls[p])
          /\ returned[p].status \in {"success", "error"}
          /\ cleanupFailed[p] \/ ~Exists(dirs, JobId(input[p]))

C3_Witness ==
    \E p \in Workers :
        /\ outcome[p] = "returned"
        /\ raised[p].stage = "upload_results"
        /\ "ISCE3Processor" \in Range(calls[p])
        /\ ~cleanupFailed[p]
        /\ ~Exists(dirs, JobId(input[p]))

\* C4: when the removal of the working directory fails, the handler call still returns
\* (no exception leaves it), and what it returns is the response that was built before
\* the cleanup, the same as when the removal succeeds.
C4_CleanupFailureNotRaised ==
    \A p \in Workers :
        /\ outcome[p] # "raised"
        /\ pc[p] \in {"done_ok", "done_err", "done_raised"} =>
              /\ outcome[p] = "returned"
              /\ returned[p] = response[p]
              /\ returned[p].status = (IF pc[p] = "done_ok" THEN "success" ELSE "error")

C4_Witness ==
    \E p \in Workers :
        /\ cleanupFailed[p]
        /\ outcome[p] = "returned"
        /\ returned[p].status = "success"

\* The three required fields are present and not empty.
RequiredGiven(i) ==
    Truthy(i.job_id) /\ Truthy(i.reference_granule) /\ Truthy(i.secondary_granule)

\* C5 as stated: validation accepts exactly the inputs whose three required fields are
\* present and not empty and that give both URLs or both paths (a key that is present).
C5_AcceptsIffPairPresent ==
    \A p \in Workers :
        validation[p].ran =>
          (validation[p].valid <=>
             /\ RequiredGiven(input[p])
             /\ \/ input[p].reference_url # Absent /\ input[p].secondary_url # Absent
                \/ input[p].reference_path # Absent /\ input[p].secondary_path # Absent)

\* C5, amended: validation accepts exactly the inputs whose three required fields are
\* present and not empty and in which both URLs are present and not empty or both
\* paths are present and not empty.
C5_AcceptsIffPairNonEmpty ==
    \A p \in Workers :
        validation[p].ran =>
          (validation[p].valid <=>
             /\ RequiredGiven(input[p])
             /\ \/ Truthy(input[p].reference_url) /\ Truthy(input[p].secondary_url)
                \/ Truthy(input[p].reference_path) /\ Truthy(input[p].secondary_path))

\* A mixed pair, one URL and one path, is rejected.
C5_Witness ==
    \E p \in Workers :
        /\ validation[p].ran /\ ~validation[p].valid
        /\ RequiredGiven(input[p])
        /\ Truthy(input[p].reference_url) /\ input[p].secondary_url = Absent
        /\ input[p].reference_path = Absent /\ Truthy(input[p].secondary_path)

\* C6: for a job whose input lacks a required field, or gives neither both URLs nor
\* both paths, nothing is downloaded, no working directory is made and no processor is
\* created; the handler returns an error response.
C6_InvalidJobTouchesNothing ==
    \A p \in Workers :
        (/\ validation[p].ran
         /\ \/ ~RequiredGiven(input[p])
            \/ /\ ~(Truthy(input[p].reference_url) /\ Truthy(input[p].secondary_url))
               /\ ~(Truthy(input[p].reference_path) /\ Truthy(input[p].secondary_path)))
        => /\ Range(calls[p]) \cap {"mkdir", "download_ref", "download_sec",
                                     "ISCE3Processor", "process_pair"} = {}
           /\ \A f \in GranuleFiles : granuleFile[f] = "absent"
           /\ raised[p].stage = "validate_input"
           /\ outcome[p] = "returned" => returned[p].status = "error"

C6_Witness ==
    \E p \in Workers :
        /\ input[p].secondary_granule = Absent
        /\ Truthy(input[p].job_id) /\ Truthy(input[p].reference_granule)
        /\ Truthy(input[p].reference_url) /\ Truthy(input[p].secondary_url)
        /\ outcome[p] = "returned"
        /\ returned[p].status = "error"

\* C7: a job whose processing succeeded, and in which nothing but the upload or the
\* webhook failed, returns a response of status "success".
C7_DeliveryFailureKeepsSuccess ==
    \A p \in Workers :
        (/\ outcome[p] = "returned"
         /\ result[p].success
         /\ raised[p].stage \in {"none", "upload_results", "notify_webhook"})
        => returned[p].status = "success"

\* C8: notify_webhook raises nothing, and a webhook call that failed leaves the status
\* of the returned response what it was in the payload of that call: "success" when
\* nothing raised before it.
C8_WebhookFailureKeepsStatus ==
    \A p \in Workers :
        /\ raised[p].stage # "notify_webhook"
        /\ outcome[p] = "returned" =>
              \A k \in DOMAIN webhookLog[p] :
                  ~webhookLog[p][k].ok =>
                    /\ returned[p].status = webhookLog[p][k].payload.status
                    /\ returned[p].status = (IF raised[p] = NoExc THEN "success" ELSE "error")

C8_Witness ==
    \E p \in Workers :
        /\ outcome[p] = "returned"
        /\ returned[p].status = "success"
        /\ Len(webhookLog[p]) = 1
        /\ ~webhookLog[p][1].ok

\* s occurs in t as a run of consecutive tokens.
Contains(t, s) ==
    \E k \in 0 .. (Len(t) - Len(s)) : SubSeq(t, k + 1, k + Len(s)) = s

\* C9: the error response of a job in which a pipeline step raised names that step
\* (in the error text or in a frame of the trace) and carries the message and a trace.
C9_FailureNamesStage ==
    \A p \in Workers :
        (outcome[p] = "returned" /\ raised[p].stage \in StageSet) =>
          /\ returned[p].status = "error"
          /\ Contains(returned[p].error, raised[p].msg)
          /\ returned[p].error_trace # NoTrace
          /\ \/ StageFn(raised[p].stage) \in Range(returned[p].error)
             \/ StageFn(raised[p].stage) \in Range(returned[p].error_trace.frames)

\* C10: the error and error_trace of an error response are the message and the trace
\* of the first exception raised in the job, unchanged.
C10_ErrorIsOriginalVerbatim ==
    \A p \in Workers :
        (outcome[p] = "returned" /\ returned[p].status = "error") =>
          /\ returned[p].error = raised[p].msg
          /\ returned[p].error_trace = format_exc(raised[p])

----------------------------------------------------------------------------
\* C11: every job handed to the handler eventually ends in exactly one of Completed
\* or Failed with exactly one response: the call returns (no exception of validation,
\* a stage, delivery or cleanup leaves it), the response says "success" exactly in
\* Completed and "error" exactly in Failed, and once returned nothing more happens.
Terminal(p) == pc[p] \in {"done_ok", "done_err", "done_raised"}

C11_EveryJobEndsCompletedOrFailed ==
    /\ \A p \in Workers : (pc[p] = "start") ~> (pc[p] \in {"done_ok", "done_err"})
    /\ [](\A p \in Workers :
            /\ outcome[p] # "raised"
            /\ Status(p) # "Aborted"
            /\ (outcome[p] = "returned") <=> Terminal(p)
            /\ Terminal(p) =>
                  /\ Status(p) \in {"Completed", "Failed"}
                  /\ returned[p] = response[p]
                  /\ (Status(p) = "Completed") <=> (returned[p].status = "success")
                  /\ (Status(p) = "Failed") <=> (returned[p].status = "error"))
    /\ [][\A p \in Workers :
            Terminal(p) => /\ pc'[p] = pc[p]
                           /\ returned'[p] = returned[p]
                           /\ outcome'[p] = outcome[p]]_vars

\* a job whose geocoding failed and whose cleanup failed too has returned its error response
C11_Witness ==
    /\ pc["w1"] = "done_err"
    /\ raised["w1"].stage = "_geocode"
    /\ cleanupFailed["w1"]
    /\ returned["w1"].status = "error"

----------------------------------------------------------------------------
\* C12: a success notification is sent only after the job's artifact upload has
\* finished (when STORAGE_BUCKET is set the upload call precedes it and its payload
\* carries the presigned URLs); a job on the Failed path with a webhook URL has sent a
\* failure notification by the time it cleans up; after an exception reached the
\* handler no upload is started.
Occurrences(s, name) == {k \in DOMAIN s : s[k] = name}

C12_DeliveryOrder ==
    /\ [](\A p \in Workers :
            /\ \A k \in DOMAIN webhookLog[p] :
                  webhookLog[p][k].payload.status = "success" =>
                    /\ Occurrences(calls[p], "notify_webhook") # {}
                    /\ storageBucket =>
                          /\ webhookLog[p][k].payload.results.artifact_urls = "presigned"
                          /\ \E u \in Occurrences(calls[p], "upload_results") :
                                \A n \in Occurrences(calls[p], "notify_webhook") : u < n
            /\ (pc[p] \in {"finally_err", "done_err"} /\ Truthy(input[p].webhook_url)) =>
                  /\ webhookLog[p] # <<>>
                  /\ webhookLog[p][Len(webhookLog[p])].payload.status = "error"
                  /\ webhookLog[p][Len(webhookLog[p])].payload = response[p])
    /\ [][\A p \in Workers :
            raised[p] # NoExc =>
              Occurrences(calls'[p], "upload_results") = Occurrences(calls[p], "upload_results")]_vars

\* with a bucket set: a job notified of success after its upload, and a job whose
\* geocoding failed notified of the failure
C12_Witness ==
    /\ storageBucket
    /\ pc["w1"] = "done_err"
    /\ raised["w1"].stage = "_geocode"
    /\ Len(webhookLog["w1"]) = 1
    /\ webhookLog["w1"][1].payload.status = "error"
    /\ "upload_results" \notin Range(calls["w1"])

----------------------------------------------------------------------------
\* C13: _prepare_dem is idempotent.  When a call starts after another job's call has
\* returned, and the two bboxes give the same cache key (margin added, rounded to two
\* decimals), the later call finds the tile, fetches nothing and writes nothing, and
\* returns the path the earlier call returned.
C13_GetDemIdempotent ==
    \A p, q \in Workers :
      (p # q /\ p \in demCall[q].after /\ DemKey(bbox[p]) = DemKey(bbox[q])) =>
        /\ demCall[q].hit
        /\ demCall[q].fetches = 0
        /\ demCall[q].writes = 0
        /\ demCall[q].returned
        /\ demCall[q].path = demCall[p].path
        /\ demCall[q].path = DemPath(DemKey(bbox[p]))

\* the second job's bbox differs from the first one's and has the same key
C13_Witness ==
    /\ demCall["w1"].returned
    /\ demCall["w1"].fetches = 1
    /\ "w1" \in demCall["w2"].after
    /\ bbox["w1"] # bbox["w2"]
    /\ DemKey(bbox["w1"]) = DemKey(bbox["w2"])
    /\ demCall["w2"].returned

----------------------------------------------------------------------------
\* C14: a job whose _prepare_dem returns the cached tile found it complete, with no
\* other job writing it (as stated by the claim; the code does not keep it).
C14_NeverReturnsTileBeingWritten ==
    \A p \in Workers :
      (demCall[p].returned /\ demCall[p].hit) =>
        /\ demCall[p].sawState = "complete"
        /\ demCall[p].sawWriters = {}

----------------------------------------------------------------------------
\* C15: a tile that is complete is never written again: no step changes the file of a
\* cache key once it is complete (as stated by the claim; the code does not keep it).
C15_CompleteTileNeverRewritten ==
    [][\A k \in DemKeys : demFile[k].state = "complete" => demFile'[k] = demFile[k]]_vars

----------------------------------------------------------------------------
\* C16: a failed DEM fetch (gdal.Warp raises, or yields nothing) is never what fails a
\* job.  The fetch steps never leave to an except block; a job whose fetch failed and
\* in which nothing else raised has got a DEM path from _prepare_dem, the synthetic
\* tile, has run every later stage including the statistics, and ends Completed with
\* status "success"; if such a job is Failed, the exception came from somewhere else.
C16_FetchFailureFallsBack ==
    /\ [](\A p \in Workers :
            demCall[p].fetchFailed =>
              /\ pc[p] # "dem_synth" =>
                   raised[p].frames # <<"handler", "process_pair", "_prepare_dem">>
              /\ Status(p) = "Failed" => raised[p] # NoExc
              /\ (Terminal(p) /\ raised[p] = NoExc) =>
                   /\ Status(p) = "Completed"
                   /\ returned[p].status = "success"
                   /\ demCall[p].returned
                   /\ demCall[p].path = DemPath(DemKey(bbox[p]))
                   /\ demFile[DemKey(bbox[p])].kind = "synthetic"
                   /\ \A st \in StageSet : st \in Range(calls[p]))
    /\ [][\A p \in Workers :
            pc[p] \in {"dem_warp", "dem_warp_write"} =>
              pc'[p] \in {pc[p], "dem_warp_write", "dem_synth", NextStage("_prepare_dem")}]_vars

\* the fetch failed part way, the job went on and returned success
C16_Witness ==
    /\ demCall["w1"].fetchFailed
    /\ demCall["w1"].writes = 2
    /\ pc["w1"] = "done_ok"
    /\ returned["w1"].status = "success"
    /\ "_calculate_statistics" \in Range(calls["w1"])

----------------------------------------------------------------------------
\* C17: the synthetic tile a job got from _prepare_dem has elevation 100 everywhere
\* and covers the bbox with its margin, as the real tile would (as stated by the
\* claim; the code does not keep it).
Covers(e, b) ==
    /\ e.west <= b.west
    /\ e.east >= b.east
    /\ e.south <= b.south
    /\ e.north >= b.north

C17_SyntheticCoversExpandedBBox ==
    \A p \in Workers :
      (demCall[p].returned /\ demFile[demCall[p].key].kind = "synthetic"
         /\ demFile[demCall[p].key].state = "complete") =>
        /\ demFile[demCall[p].key].elevation = SyntheticElevation
        /\ Covers(demFile[demCall[p].key].extent, WarpExtent(bbox[p]))

----------------------------------------------------------------------------
\* C18: staging is idempotent: of two _extract_safe calls on the same archive in one
\* working directory that both returned, the later one returns the path the earlier
\* one returned and extracts nothing (as stated by the claim; the code does not keep
\* it).
C18_StagingIdempotent ==
    \A i, j \in DOMAIN stageLog :
      (i < j /\ stageLog[i].archive = stageLog[j].archive
         /\ ~stageLog[i].raised /\ ~stageLog[j].raised) =>
        /\ stageLog[j].path = stageLog[i].path
        /\ ~stageLog[j].extracted

----------------------------------------------------------------------------
\* C19: _extract_safe never returns the path of a product directory that does not
\* exist: when the directory is not there after extraction the call raises (as stated
\* by the claim; the code does not keep it).
C19_StagedPathExists ==
    \A i \in DOMAIN stageLog : ~stageLog[i].raised => stageLog[i].exists

----------------------------------------------------------------------------
\* C20: every point with both coordinates that lies outside the extent of the raster
\* gets valid = false, a null displacement and the error "Point outside raster
\* bounds" (as stated by the claim; the code does not keep it).
\* The raster covers gt[0] <= lon < gt[0] + cols * gt[1] and
\* gt[3] + rows * gt[5] < lat <= gt[3].
OutsideExtent(r, lat, lon) ==
    \/ lon < r.gt[1]
    \/ lon >= r.gt[1] + Cols(r) * r.gt[2]
    \/ lat > r.gt[3]
    \/ lat <= r.gt[3] + Rows(r) * r.gt[4]

C20_OutsidePointsRejected ==
    (samples.done /\ raster.opens) =>
      \A k \in DOMAIN samplePoints :
        LET pt == samplePoints[k] IN
        (pt.lat # None /\ pt.lon # None /\ OutsideExtent(raster, pt.lat[1], pt.lon[1])) =>
          /\ k \in DOMAIN samples.results
          /\ samples.results[k].valid = FALSE
          /\ samples.results[k].displacement_mm = None
          /\ "error" \in DOMAIN samples.results[k]
          /\ samples.results[k].error = "Point outside raster bounds"

----------------------------------------------------------------------------
\* C21: on a raster that opens, the entry of every point without lat or without lon
\* is valid = false, null displacement, null coherence, error "Missing coordinates";
\* it is the same whatever the raster holds.
C21_MissingCoordinatesRejected ==
    (samples.done /\ raster.opens) =>
      \A k \in DOMAIN samplePoints :
        (samplePoints[k].lat = None \/ samplePoints[k].lon = None) =>
          /\ k \in DOMAIN samples.results
          /\ samples.results[k] =
               [point_id |-> samplePoints[k].id, displacement_mm |-> None,
                coherence |-> None, valid |-> FALSE, error |-> "Missing coordinates"]

\* a point with a latitude inside the raster and no longitude, on a raster with coherence
C21_Witness ==
    /\ samples.done
    /\ raster.opens
    /\ raster.coherence
    /\ Len(samplePoints) = 2
    /\ samplePoints[1].lat = Some(20)
    /\ samplePoints[1].lon = None
    /\ samples.results[1].error = "Missing coordinates"
    /\ samples.results[2].valid

----------------------------------------------------------------------------
\* C22: on a raster that opens, the result has one entry per point, in the order of
\* the input and with the point's id, and the entry of each point is the one the
\* function gives for that point alone: no other point of the list changes it.
C22_OneEntryPerPointInOrder ==
    (samples.done /\ raster.opens) =>
      /\ Len(samples.results) = Len(samplePoints)
      /\ \A k \in DOMAIN samplePoints :
           /\ samples.results[k].point_id = samplePoints[k].id
           /\ samples.results[k] =
                extract_displacement_at_points(raster, <<samplePoints[k]>>)[1]

\* an invalid point first, a valid one of another id after it
C22_Witness ==
    /\ samples.done
    /\ raster.opens
    /\ Len(samplePoints) = 2
    /\ samplePoints[1].id = "p2"
    /\ samplePoints[2].id = "p1"
    /\ ~samples.results[1].valid
    /\ samples.results[2].valid
    /\ samples.results[2].point_id = "p1"

----------------------------------------------------------------------------
\* C23: for a point whose pixel is inside the array, valid is false and the
\* displacement null exactly when the pixel holds the nodata sentinel -9999 or NaN;
\* otherwise valid is true and the displacement is the value of the pixel.
C23_ValidUnlessNoDataOrNaN ==
    (samples.done /\ raster.opens) =>
      \A k \in DOMAIN samplePoints :
        LET pt == samplePoints[k] IN
        (pt.lat \in InsideLat /\ pt.lon \in InsideLon) =>
          LET v == raster.data[PixelY(raster, pt.lat[1]) + 1][PixelX(raster, pt.lon[1]) + 1]
              e == samples.results[k]
          IN  IF v.nan \/ v.v = DefaultNoData
                THEN e.valid = FALSE /\ e.displacement_mm = None
                ELSE e.valid = TRUE /\ e.displacement_mm = Some(v.v)

\* one point on the NaN pixel, one on the pixel holding 0 of a raster whose declared
\* nodata value is 0
C23_Witness ==
    /\ samples.done
    /\ raster.opens
    /\ raster.nodata = Some(0)
    /\ Len(samplePoints) = 2
    /\ samplePoints[1].lat = Some(17) /\ samplePoints[1].lon = Some(10)
    /\ samplePoints[2].lat = Some(17) /\ samplePoints[2].lon = Some(13)
    /\ ~samples.results[1].valid
    /\ samples.results[2].valid
    /\ samples.results[2].displacement_mm = Some(0)

----------------------------------------------------------------------------
\* C24: in every success response, and in the webhook payload sent for it,
\* displacement_points has one entry per point of the job's points list, in the order
\* of the list and with the point's id.
MatchesRequest(dp, pts) ==
    /\ Len(dp) = Len(pts)
    /\ \A k \in DOMAIN pts : dp[k].point_id = pts[k].id

C24_OneEntryPerRequestedPoint ==
    \A p \in Workers :
      /\ response[p].status = "success" =>
           MatchesRequest(response[p].results.displacement_points, RequestedPoints(input[p]))
      /\ returned[p].status = "success" =>
           MatchesRequest(returned[p].results.displacement_points, RequestedPoints(input[p]))
      /\ \A k \in DOMAIN webhookLog[p] :
           webhookLog[p][k].payload.status = "success" =>
             MatchesRequest(webhookLog[p][k].payload.results.displacement_points,
                            RequestedPoints(input[p]))

\* a job with two points, the first of them invalid, has returned success with both
C24_Witness ==
    /\ pc["w1"] = "done_ok"
    /\ Truthy(input["w1"].points)
    /\ Len(returned["w1"].results.displacement_points) = 2
    /\ returned["w1"].results.displacement_points[1].point_id = "p1"
    /\ ~returned["w1"].results.displacement_points[1].valid
    /\ returned["w1"].results.displacement_points[2].point_id = "p2"
    /\ returned["w1"].results.displacement_points[2].valid

\* The granule files the download_granule calls of job p have tested, written or unlinked.
GranuleFilesOf(p) ==
    {FileName(input[p].reference_granule) : x \in {n \in Range(calls[p]) : n = "download_ref"}}
        \cup {FileName(input[p].secondary_granule) : x \in {n \in Range(calls[p]) : n = "download_sec"}}

\* C25: apart from the DEM cache, no file is shared by two jobs: a granule file in
\* INPUT_DIR that one job has tested, written or deleted is never tested, written
\* or deleted by another job.
C25_GranuleFilesOwnedByOneJob ==
    \A p \in Workers : \A q \in Workers \ {p} : GranuleFilesOf(p) \cap GranuleFilesOf(q) = {}

\* Every pixel of raster a is p.
Constant(a, p) == \A i \in DOMAIN a : \A j \in DOMAIN a[i] : a[i][j] = p

\* p * wavelength * 1000 / (4 * pi) in 0.0001 mm, for p in 0.1 rad: the quotient is
\* taken in two parts to stay within 32 bits.
FormulaDisplacement(p) ==
    LET q == WavelengthE7 * 1000
    IN  p * (q \div FourPiE4) + (p * (q % FourPiE4)) \div FourPiE4

\* C26: an unwrapped-phase raster of constant value p is geocoded to a displacement
\* raster whose every pixel is p * wavelength * 1000 / (4 * pi) mm, to the
\* resolution of the arithmetic (0.001 mm per rad).
C26_ConstantPhaseGivesFormula ==
    \A p \in PhaseValues \ {PhaseNoData} :
        (geoOut # NoRasterCall /\ ~geoOut.error /\ Constant(geoIn.phase, p))
            => \A i \in DOMAIN geoOut.data : \A j \in DOMAIN geoOut.data[i] :
                   Abs(geoOut.data[i][j] - FormulaDisplacement(p)) <= Abs(p)

\* a constant raster of -3.1 rad has been resampled from 2 x 2 to 3 x 3 pixels
C26_Witness ==
    /\ geoOut # NoRasterCall
    /\ ~geoOut.error
    /\ Constant(geoIn.phase, -31)
    /\ geoOut.width = 3
    /\ geoOut.height = 3
    /\ geoOut.data[2][2] = -31 * 4416

\* The positions of a job inside the processing pipeline, the DEM provider included.
InPipeline(p) ==
    pc[p] \in StageSet \cup {"dem_warp", "dem_warp_write", "dem_synth", "dem_synth_write"}

\* C27: a bbox that reaches the DEM provider or any other pipeline stage has
\* north > south and east > west.
C27_PipelineBBoxWellFormed ==
    \A p \in Workers :
        InPipeline(p) => bbox[p].north > bbox[p].south /\ bbox[p].east > bbox[p].west

\* The input pixels that output pixel k of m takes a share of, along an axis of n pixels.
ZoomSupport(k, n, m) ==
    LET at == ZoomAt(k, n, m)
    IN  IF at.r = 0 THEN {at.i + 1} ELSE {at.i + 1, at.i + 2}

WithPixel(a, i, j, v) == [a EXCEPT ![i][j] = v]

PathOnlyJob(i) ==
    /\ Truthy(i.reference_path)
    /\ Truthy(i.secondary_path)
    /\ i.reference_url = Absent
    /\ i.secondary_url = Absent

\* C30: a job that gives local paths for both acquisitions and no URLs is never
\* failed for the missing reference_url or secondary_url.
C30_PathOnlyJobNotFailedForMissingUrl ==
    \A p \in Workers :
        PathOnlyJob(input[p])
            => ~(/\ raised[p].type = "KeyError"
                 /\ raised[p].stage \in {"download_ref", "download_sec"})

\* Job p has made its working directory: job_work_dir.mkdir returned.
CreatedWorkDir(p) == "mkdir" \in Range(calls[p]) /\ raised[p].stage # "mkdir"

\* C31: a working directory under OUTPUT_DIR disappears only in the cleanup of the
\* job that created it, and is that job's own working directory.
C31_CleanupRemovesOnlyOwnDirectory ==
    [][\A d \in (dirs \ dirs') \ {""} :
          \E p \in Workers :
              /\ pc[p] \in {"finally_ok", "finally_err"}
              /\ pc'[p] # pc[p]
              /\ d = JobId(input[p])
              /\ CreatedWorkDir(p)]_vars

\* The artifacts kept at home h exist: a working directory while it is there, an
\* uploaded object from then on.
ArtifactsExist(h) == h[1] = "bucket" \/ Exists(dirs, h[2])

\* C32: when the handler has returned a success response, the artifacts it refers
\* to exist.
C32_ReturnedArtifactsExist ==
    \A p \in Workers :
        (outcome[p] = "returned" /\ returned[p].status = "success")
            => ArtifactsExist(ArtifactHome(returned[p].results.artifact_urls, returned[p].job_id))

\* C33: a job sends at most one webhook notification, and once the handler has
\* returned, the status in its payload is the status of the returned response.
C33_OneNotificationWithReturnedStatus ==
    \A p \in Workers :
        /\ Len(webhookLog[p]) <= 1
        /\ outcome[p] = "returned"
             => \A k \in DOMAIN webhookLog[p] : webhookLog[p][k].payload.status = returned[p].status

\* a job with a webhook URL has returned success after one notification of success
C33_Witness ==
    /\ Truthy(input["w1"].webhook_url)
    /\ outcome["w1"] = "returned"
    /\ returned["w1"].status = "success"
    /\ Len(webhookLog["w1"]) = 1
    /\ webhookLog["w1"][1].payload.status = "success"

\* The archive of a logged _extract_safe call.
ArchiveOf(path) == CHOOSE a \in Archives : a.path = path

\* A zip archive that holds a product directory *.SAFE.
ProductArchive(a) == a.zip /\ \E n \in a.entries : IsSafeName(n)

\* C34: two _extract_safe calls of one job on two different product archives, both
\* returning, give two different directories, each the product of its own archive.
C34_EachArchiveItsOwnProduct ==
    \A i, j \in DOMAIN stageLog :
      (i < j /\ stageLog[i].archive # stageLog[j].archive
         /\ ProductArchive(ArchiveOf(stageLog[i].archive))
         /\ ProductArchive(ArchiveOf(stageLog[j].archive))
         /\ ~stageLog[i].raised /\ ~stageLog[j].raised) =>
        /\ stageLog[j].path # stageLog[i].path
        /\ stageLog[i].path[2] \in ArchiveOf(stageLog[i].archive).entries
        /\ stageLog[j].path[2] \in ArchiveOf(stageLog[j].archive).entries

\* The granule files whose paths download_granule has returned to job p, while the
\* job is between the downloads and the processing.
ReturnedGranuleFiles(p) ==
    (IF pc[p] \in {"download_sec", "download_sec_stream", "init_processor"}
       THEN {FileName(input[p].reference_granule)} ELSE {})
    \cup (IF pc[p] = "init_processor" THEN {FileName(input[p].secondary_granule)} ELSE {})

\* C35: a granule path download_granule has returned designates a completely
\* downloaded file, whatever the other job does.
C35_ReturnedGranuleIsComplete ==
    \A p \in Workers : \A f \in ReturnedGranuleFiles(p) : granuleFile[f] = "complete"

\* The download of job p that failed inside download_granule, if any.
FailedDownloadFile(p) ==
    IF raised[p].type # "RequestException" THEN {}
    ELSE IF raised[p].stage = "download_ref" THEN {FileName(input[p].reference_granule)}
    ELSE IF raised[p].stage = "download_sec" THEN {FileName(input[p].secondary_granule)}
    ELSE {}

\* C36: a download that failed has raised and left no file at its output path, and
\* a partial file is there only while a download is writing it.
C36_FailedDownloadLeavesNoFile ==
    /\ \A p \in Workers : \A f \in FailedDownloadFile(p) :
           /\ granuleFile[f] = "absent"
           /\ exc[p] # NoExc
    /\ \A f \in GranuleFiles :
           granuleFile[f] = "partial"
               => \E p \in Workers : /\ pc[p] \in {"download_ref_stream", "download_sec_stream"}
                                     /\ f = FileName(GranuleOf(p))

\* the secondary download failed after the reference was downloaded: one complete
\* file, no other
C36_Witness ==
    /\ raised["w1"].stage = "download_sec"
    /\ raised["w1"].type = "RequestException"
    /\ "download_granule" \in Range(raised["w1"].frames)
    /\ granuleFile[FileName(input["w1"].reference_granule)] = "complete"
    /\ granuleFile[FileName(input["w1"].secondary_granule)] = "absent"

\* C37: a returned response has status "success" or "error" and the job_id the
\* handler read; results is non-null and error null exactly for "success", results
\* is null and error and error_trace non-null exactly for "error".
C37_ResponseShape ==
    \A p \in Workers :
        outcome[p] = "returned" =>
          /\ returned[p].status \in {"success", "error"}
          /\ returned[p].job_id = JobId(input[p])
          /\ returned[p].status = "success"
               <=> (~returned[p].results.null /\ returned[p].error = <<>>)
          /\ returned[p].status = "error"
               <=> (/\ returned[p].results.null
                    /\ returned[p].error # <<>>
                    /\ returned[p].error_trace # NoTrace)

\* a job without job_id has been answered with an error response under the id "unknown"
C37_Witness ==
    /\ outcome["w1"] = "returned"
    /\ input["w1"].job_id = Absent
    /\ returned["w1"].job_id = "unknown"
    /\ returned["w1"].status = "error"
    /\ returned["w1"].results.null
    /\ returned["w1"].error_trace.type = "ValueError"

\* C38: for every provider with a quota, 0 <= current_usage <= quota_limit in every
\* state, whatever the threads' calls of check_quota_availability and consume_quota
\* and the resets interleave to; a consume_quota call raises APIQuotaExceededError
\* exactly when the requests would exceed the limit, and current_usage is then what
\* the call found: its value at entry, or 0 when the reset fell due.
C38_UsageWithinLimit ==
    /\ \A pr \in Providers : 0 <= currentUsage[pr] /\ currentUsage[pr] <= quota_limit[pr]
    /\ LET c == quotaDone
       IN  (c.at = "done" /\ c.op = "consume" /\ c.provider \in Providers) =>
               /\ c.seen = (IF c.reset THEN 0 ELSE c.before)
               /\ (c.ret = "APIQuotaExceededError") <=> (c.seen + c.requests > quota_limit[c.provider])
               /\ (c.ret = "APIQuotaExceededError") => (c.after = c.seen)
               /\ (c.ret = "True") => (c.after = c.seen + c.requests)

\* A consume_quota call of one thread was refused at a usage below the limit, after
\* a consume_quota call of the other thread had been granted.
C38_Witness ==
    /\ quotaDone.at = "done"
    /\ quotaDone.op = "consume"
    /\ quotaDone.ret = "APIQuotaExceededError"
    /\ quotaDone.provider = StreetView
    /\ quotaDone.before = 1
    /\ ~quotaDone.reset
    /\ currentUsage[StreetView] = 1
    /\ \E u \in Threads \ {quotaDone.thread} : quotaCall[u].at = "locked"

\* C39: the Street View requests fetch_panorama has sent since the last quota reset
\* never number more than the provider's quota_limit.
C39_IssuedRequestsWithinQuota == issued <= quota_limit[StreetView]

====
